---- MODULE Spec2Model ----
(***************************************************************************)
(* django-seo-optimizer.  Redirect resolution                              *)
(* (seo_optimizer/redirects.py): the RedirectPattern table and             *)
(* RedirectManager.find_redirect.  After it, the configuration classes     *)
(* that read django.conf.settings, the localized urls and metadata of      *)
(* i18n.py, the options of base.py, the analyzers of analytics.py and      *)
(* async_utils.py, and the keywords field of fields.py.                    *)
(*                                                                         *)
(* A string is a sequence of one-character strings, so that escaping,      *)
(* pattern compilation, matching and str.replace are computed character    *)
(* by character, the way the Python code and the re module compute them.   *)
(***************************************************************************)
EXTENDS Integers, Sequences, FiniteSets, TLC

VARIABLES
    table,      \* the RedirectPattern rows, in insertion order (index = pk)
    clock,      \* source of created_at (auto_now_add)
    op,         \* the operation that produced this state
    arg,        \* the url given to the last find_redirect call
    result,     \* what the last find_redirect call returned or raised
    before,     \* what the call before it did, where that was find_redirect
                \* of the same url with no operation in between
    calls,      \* the find_redirect calls that run step by step, by caller
    settings,   \* django.conf.settings: the settings that are set, by name
    I18nConfig, \* the attributes of class I18nConfig, set when i18n.py is
                \* imported
    active_language,  \* translation.get_language() of the running thread
    cache,      \* django.core.cache.cache: the entries it holds, by key
    tasks,      \* the analyze_url tasks of one AsyncSEOAnalyzer, in the order
                \* in which analyze_urls made them
    semaphore   \* the value of the analyzer's asyncio.Semaphore

\* what redirects.py neither reads nor writes
elsewhere == <<settings, I18nConfig, active_language, cache, tasks, semaphore>>

vars == <<table, clock, op, arg, result, before, calls, elsewhere>>

\* what the modules other than redirects.py neither read nor write
redirects == <<table, clock, before, calls>>

-----------------------------------------------------------------------------
(* Bounds of the model.                                                    *)

\* rows the table may hold under Spec
MaxRules == 3

\* rows the table may hold under SpecMatch
MaxMatchRules == 2

-----------------------------------------------------------------------------
(* Strings.                                                                *)

DigitChars == <<"0", "1", "2", "3", "4", "5", "6", "7", "8", "9">>

Digits == {DigitChars[i] : i \in 1..Len(DigitChars)}

\* str(i) for i >= 0, as the f-string f'${i}' formats it
RECURSIVE str_int(_)
str_int(n) ==
    IF n < Len(DigitChars) THEN <<DigitChars[n + 1]>>
    ELSE str_int(n \div Len(DigitChars)) \o <<DigitChars[(n % Len(DigitChars)) + 1]>>

\* s[i..] starts with t
StartsWithAt(s, i, t) ==
    /\ i + Len(t) - 1 <= Len(s)
    /\ \A k \in 1..Len(t) : s[i + k - 1] = t[k]

\* str.replace(old, new): every non-overlapping occurrence, left to right
\* (old is never empty here)
RECURSIVE str_replace_from(_, _, _, _)
str_replace_from(s, i, old, new) ==
    IF i > Len(s) THEN <<>>
    ELSE IF StartsWithAt(s, i, old)
         THEN new \o str_replace_from(s, i + Len(old), old, new)
         ELSE <<s[i]>> \o str_replace_from(s, i + 1, old, new)

str_replace(s, old, new) == str_replace_from(s, 1, old, new)

\* s contains t as a substring
Contains(s, t) == \E i \in 1..(Len(s) + 1) : StartsWithAt(s, i, t)

-----------------------------------------------------------------------------
(* The re module, for the pattern syntax the rules use: literal            *)
(* characters, backslash escapes, \d, '.', the anchors ^, $ and \Z,       *)
(* capturing groups, and the greedy quantifiers * + ? {m} {m,n} on an atom  *)
(* or group.  Character classes in brackets, alternation, lazy or          *)
(* possessive repetition and the (?...) extensions are outside this        *)
(* subset and occur in no pattern below.                                   *)

\* the characters re.escape puts a backslash before
SpecialChars ==
    {"(", ")", "[", "]", "{", "}", "?", "*", "+", "-", "|", "^", "$", "\\",
     ".", "&", "~", "#", " ", "\t", "\n", "\r", "\f"}

RECURSIVE re_escape(_)
re_escape(s) ==
    IF s = <<>> THEN <<>>
    ELSE (IF Head(s) \in SpecialChars THEN <<"\\", Head(s)>> ELSE <<Head(s)>>)
         \o re_escape(Tail(s))

Quantifiers == {"*", "+", "?"}

\* re.error raised by the compilation of the pattern
ParseError == [ok |-> FALSE, nodes |-> <<>>, i |-> 0, g |-> 0, err |-> "re.error"]

\* OverflowError raised by the compilation of the pattern
ParseOverflow == [ok |-> FALSE, nodes |-> <<>>, i |-> 0, g |-> 0, err |-> "OverflowError"]

\* _sre.MAXREPEAT = 4294967295, as a numeral
MAXREPEAT == <<"4", "2", "9", "4", "9", "6", "7", "2", "9", "5">>

\* a numeral without its leading zeros
RECURSIVE StripZeros(_)
StripZeros(d) ==
    IF Len(d) > 1 /\ Head(d) = "0" THEN StripZeros(Tail(d)) ELSE d

DigitValue(c) == CHOOSE k \in 0..9 : DigitChars[k + 1] = c

\* a < b as numbers, for numerals a, b without leading zeros
RECURSIVE NumLess(_, _)
NumLess(a, b) ==
    IF Len(a) # Len(b) THEN Len(a) < Len(b)
    ELSE IF a = <<>> THEN FALSE
    ELSE IF Head(a) # Head(b) THEN DigitValue(Head(a)) < DigitValue(Head(b))
    ELSE NumLess(Tail(a), Tail(b))

\* int(d) for a numeral d below MAXREPEAT.  A count of ten digits stands
\* for more repetitions than any string here has characters.
RECURSIVE int_from(_, _)
int_from(d, acc) ==
    IF d = <<>> THEN acc ELSE int_from(Tail(d), 10 * acc + DigitValue(Head(d)))

int(d) == IF Len(StripZeros(d)) > 9 THEN 999999999 ELSE int_from(d, 0)

\* the index after the digits that start at p[i]
RECURSIVE DigitsEnd(_, _)
DigitsEnd(p, i) ==
    IF i <= Len(p) /\ p[i] \in Digits THEN DigitsEnd(p, i + 1) ELSE i

\* sre_parse at a "{" (p[i]): "{lo}", "{lo,hi}", "{lo,}", "{,hi}" and "{,}"
\* are repeat counts; "{}" and a brace not closed after the numbers are a
\* literal "{" (ok = FALSE).  i is the index after the "}".
BracesRead(p, i, a, b) ==
    IF (i < Len(p) /\ p[i + 1] = "}") \/ ~(b <= Len(p) /\ p[b] = "}")
    THEN [ok |-> FALSE, lo |-> <<>>, hi |-> <<>>, i |-> i]
    ELSE [ok |-> TRUE, lo |-> SubSeq(p, i + 1, a - 1),
          hi |-> IF a <= Len(p) /\ p[a] = "," THEN SubSeq(p, a + 1, b - 1)
                 ELSE SubSeq(p, i + 1, a - 1),
          i |-> b + 1]

BracesFrom(p, i, a) ==
    BracesRead(p, i, a, IF a <= Len(p) /\ p[a] = "," THEN DigitsEnd(p, a + 1) ELSE a)

Braces(p, i) == BracesFrom(p, i, DigitsEnd(p, i + 1))

\* the error sre_parse raises for the count c, "" for none
CountError(c) ==
    IF c.lo # <<>> /\ ~NumLess(StripZeros(c.lo), MAXREPEAT) THEN "OverflowError"
    ELSE IF c.hi # <<>> /\ ~NumLess(StripZeros(c.hi), MAXREPEAT) THEN "OverflowError"
    ELSE IF c.lo # <<>> /\ c.hi # <<>> /\ NumLess(StripZeros(c.hi), StripZeros(c.lo))
    THEN "re.error"                              \* min repeat greater than max repeat
    ELSE ""

\* a "{" with nothing before it that it can repeat
BraceAtom(i, g, c) ==
    IF ~c.ok
    THEN [ok |-> TRUE, i |-> i + 1, g |-> g,
          nodes |-> <<[t |-> "chr", cls |-> "lit", c |-> "{"]>>]
    ELSE IF CountError(c) = "OverflowError" THEN ParseOverflow
    ELSE ParseError                              \* nothing to repeat, multiple repeat

\* the atom a repeated by the count c
Counted(a, c) ==
    IF ~c.ok THEN a
    ELSE IF CountError(c) = "OverflowError" THEN ParseOverflow
    ELSE IF CountError(c) = "re.error" THEN ParseError
    ELSE IF a.nodes[1].t \in {"bol", "eol", "eos"} THEN ParseError   \* nothing to repeat
    ELSE [ok |-> TRUE, i |-> c.i, g |-> a.g,
          nodes |-> <<[t |-> "rep",
                       min |-> IF c.lo = <<>> THEN 0 ELSE int(c.lo),
                       max |-> IF c.hi = <<>> THEN 0 ELSE int(c.hi),
                       inf |-> c.hi = <<>>,
                       last |-> 0,
                       body |-> a.nodes[1]]>>]

\* sre_parse: a pattern is a sequence of items; an item is an atom with an
\* optional quantifier; "(" opens a group numbered by its position.
\* g counts the groups opened so far.
RECURSIVE ParseSeq(_, _, _, _)
RECURSIVE ParseAtom(_, _, _)
RECURSIVE ParseMore(_, _, _)

\* b is the body of the group that opened as group number idx
ParseGroup(p, idx, b) ==
    IF b.ok /\ b.i <= Len(p)
    THEN [ok |-> TRUE, i |-> b.i + 1, g |-> b.g,
          nodes |-> <<[t |-> "grp", idx |-> idx, body |-> b.nodes]>>]
    ELSE IF ~b.ok THEN b
    ELSE ParseError                              \* missing ), unterminated subpattern

ParseAtom(p, i, g) ==
    LET c == p[i] IN
    CASE c = "(" -> ParseGroup(p, g + 1, ParseSeq(p, i + 1, g + 1, <<>>))
      [] c = "\\" ->
            IF i = Len(p) THEN ParseError        \* bad escape (end of pattern)
            ELSE [ok |-> TRUE, i |-> i + 2, g |-> g,
                  nodes |-> <<CASE p[i + 1] = "d" -> [t |-> "chr", cls |-> "digit", c |-> ""]
                                [] p[i + 1] = "Z" -> [t |-> "eos"]
                                [] OTHER -> [t |-> "chr", cls |-> "lit", c |-> p[i + 1]]>>]
      [] c = "." ->
            [ok |-> TRUE, i |-> i + 1, g |-> g,
             nodes |-> <<[t |-> "chr", cls |-> "any", c |-> ""]>>]
      [] c = "^" ->
            [ok |-> TRUE, i |-> i + 1, g |-> g, nodes |-> <<[t |-> "bol"]>>]
      [] c = "$" ->
            [ok |-> TRUE, i |-> i + 1, g |-> g, nodes |-> <<[t |-> "eol"]>>]
      [] c \in Quantifiers -> ParseError         \* nothing to repeat
      [] c = "{" -> BraceAtom(i, g, Braces(p, i))
      [] OTHER ->
            [ok |-> TRUE, i |-> i + 1, g |-> g,
             nodes |-> <<[t |-> "chr", cls |-> "lit", c |-> c]>>]

\* a is the atom just parsed: a quantifier after it makes it a repetition
Quantified(p, a) ==
    IF ~a.ok THEN a
    ELSE IF a.i <= Len(p) /\ p[a.i] \in Quantifiers
    THEN IF a.nodes[1].t \in {"bol", "eol", "eos"} THEN ParseError   \* nothing to repeat
         ELSE [ok |-> TRUE, i |-> a.i + 1, g |-> a.g,
               nodes |-> <<[t |-> "rep",
                            min |-> IF p[a.i] = "+" THEN 1 ELSE 0,
                            max |-> IF p[a.i] = "?" THEN 1 ELSE 0,
                            inf |-> p[a.i] # "?",
                            last |-> 0,
                            body |-> a.nodes[1]]>>]
    ELSE IF a.i <= Len(p) /\ p[a.i] = "{" THEN Counted(a, Braces(p, a.i))
    ELSE a

ParseItem(p, i, g) == Quantified(p, ParseAtom(p, i, g))

ParseSeq(p, i, g, acc) ==
    IF i > Len(p) \/ p[i] = ")"
    THEN [ok |-> TRUE, nodes |-> acc, i |-> i, g |-> g]
    ELSE ParseMore(p, ParseItem(p, i, g), acc)

\* a is the item just parsed
ParseMore(p, a, acc) ==
    IF ~a.ok THEN a
    ELSE ParseSeq(p, a.i, a.g, acc \o a.nodes)

\* re.compile: the compiled pattern, or ok = FALSE where it raises, err
\* the exception
Compiled(p, r) ==
    IF ~r.ok \/ r.i = Len(p) + 1 THEN r
    ELSE ParseError                              \* unbalanced parenthesis

re_compile(p) == Compiled(p, ParseSeq(p, 1, 0, <<>>))

NoGroup == [m |-> FALSE, v |-> <<>>]

NoMatch == [ok |-> FALSE, groups |-> <<>>]

ChrMatches(n, c) ==
    CASE n.cls = "lit" -> c = n.c
      [] n.cls = "digit" -> c \in Digits
      [] n.cls = "any" -> c # "\n"

\* how many characters from pos on the character node n matches in a row
RunLength(n, s, pos) ==
    CHOOSE k \in 0..(Len(s) + 1 - pos) :
        /\ \A j \in 0..(k - 1) : ChrMatches(n, s[pos + j])
        /\ pos + k <= Len(s) => ~ChrMatches(n, s[pos + k])

\* The backtracking matcher: todo is what is left to match from position
\* pos of s, groups the captures so far.  Greedy repetition tries one more
\* iteration before it tries what follows.
RECURSIVE Backtrack(_, _, _, _)
RECURSIVE OrElse(_, _, _, _, _, _)
RECURSIVE BackOff(_, _, _, _, _, _)
RECURSIVE OrFewer(_, _, _, _, _, _, _)
Backtrack(todo, s, pos, groups) ==
    IF todo = <<>> THEN [ok |-> TRUE, groups |-> groups]
    ELSE
    LET n == Head(todo)
        rest == Tail(todo)
    IN
    CASE n.t = "chr" ->
            IF pos <= Len(s) /\ ChrMatches(n, s[pos])
            THEN Backtrack(rest, s, pos + 1, groups)
            ELSE NoMatch
      [] n.t = "bol" ->
            IF pos = 1 THEN Backtrack(rest, s, pos, groups) ELSE NoMatch
      [] n.t = "eol" ->
            \* $ : at the end, or just before a newline that ends the string
            IF pos = Len(s) + 1 \/ (pos = Len(s) /\ s[pos] = "\n")
            THEN Backtrack(rest, s, pos, groups)
            ELSE NoMatch
      [] n.t = "eos" ->
            \* \Z : at the end only
            IF pos = Len(s) + 1 THEN Backtrack(rest, s, pos, groups) ELSE NoMatch
      [] n.t = "grp" ->
            Backtrack(n.body \o <<[t |-> "end", idx |-> n.idx, from |-> pos]>> \o rest,
                      s, pos, groups)
      [] n.t = "end" ->
            Backtrack(rest, s, pos,
                      [groups EXCEPT ![n.idx] = [m |-> TRUE, v |-> SubSeq(s, n.from, pos - 1)]])
      [] n.t = "rep" /\ n.body.t = "chr" ->
            \* a repeated character: as many as there are (at most one for ?),
            \* then one fewer at a time until what follows matches
            BackOff(rest, s, pos, groups,
                    IF n.inf \/ RunLength(n.body, s, pos) < n.max
                    THEN RunLength(n.body, s, pos) ELSE n.max,
                    n.min)
      [] n.t = "rep" ->
            LET again == [n EXCEPT !.min = IF n.min > 0 THEN n.min - 1 ELSE 0,
                                   !.max = IF n.inf THEN 0 ELSE n.max - 1,
                                   !.last = pos]
            IN OrElse(IF (n.inf \/ n.max > 0) /\ (n.last # pos \/ n.min > 0)
                      THEN Backtrack(<<n.body, again>> \o rest, s, pos, groups)
                      ELSE NoMatch,
                      n.min = 0, rest, s, pos, groups)

BackOff(rest, s, pos, groups, k, min) ==
    IF k < min THEN NoMatch
    ELSE OrFewer(Backtrack(rest, s, pos + k, groups), rest, s, pos, groups, k, min)

\* r is the outcome with k repetitions
OrFewer(r, rest, s, pos, groups, k, min) ==
    IF r.ok THEN r ELSE BackOff(rest, s, pos, groups, k - 1, min)

\* more is the outcome of one more iteration; where it failed and the
\* repetition may stop here, what follows is tried
OrElse(more, mayStop, rest, s, pos, groups) ==
    IF more.ok THEN more
    ELSE IF mayStop THEN Backtrack(rest, s, pos, groups)
    ELSE NoMatch

\* re.match(pattern, string): the match is tried at the start of the string
\* only, and may end anywhere.  status is "error" where the compilation of
\* the pattern raises (re.error, OverflowError);
\* groups is match.groups(), m = FALSE for a group that is None.
MatchObject(r) ==
    IF r.ok THEN [status |-> "match", groups |-> r.groups]
    ELSE [status |-> "nomatch", groups |-> <<>>]

MatchCompiled(c, string) ==
    IF ~c.ok THEN [status |-> "error", groups |-> <<>>]
    ELSE MatchObject(Backtrack(c.nodes, string, 1, [k \in 1..c.g |-> NoGroup]))

re_match(pattern, string) == MatchCompiled(re_compile(pattern), string)

-----------------------------------------------------------------------------
(* RedirectPattern rows and the rules the model draws them from.           *)

HTTP_301 == 301
HTTP_302 == 302
HTTP_307 == 307
HTTP_308 == 308

Rule(pattern, target, regex, status) ==
    [url_pattern |-> pattern, redirect_url |-> target, is_regex |-> regex,
     status_code |-> status]

\* The rules of Spec: rows of every kind that match the same paths, and
\* one whose pattern does not compile.

\* '/page' -> '/page-v1'
PageV1 == Rule(<<"/", "p", "a", "g", "e">>, <<"/", "p", "a", "g", "e", "-", "v", "1">>, FALSE, HTTP_301)

\* '/p*' -> '/w', a wildcard pattern
PageWildcard == Rule(<<"/", "p", "*">>, <<"/", "w">>, FALSE, HTTP_302)

\* '/p(.*)' -> '/r/$1', a regular expression
PageRegex == Rule(<<"/", "p", "(", ".", "*", ")">>, <<"/", "r", "/", "$", "1">>, TRUE, HTTP_307)

\* '/(page' -> '/x', is_regex with a pattern re.compile rejects
BrokenRegex == Rule(<<"/", "(", "p", "a", "g", "e">>, <<"/", "x">>, TRUE, HTTP_308)

Rules == {PageV1, PageWildcard, PageRegex, BrokenRegex}

Paths == {<<"/", "p", "a", "g", "e">>,
          <<"/", "p", "a">>,
          <<"/", "o", "t", "h", "e", "r">>}

\* The rules of SpecMatch: the rules of tests/test_redirects.py, and a
\* regular expression with two groups.

\* '/old-page' -> '/new-page'
OldPage == Rule(<<"/", "o", "l", "d", "-", "p", "a", "g", "e">>, <<"/", "n", "e", "w", "-", "p", "a", "g", "e">>, FALSE, HTTP_301)

\* '/blog/*/*/post' -> '/articles/$1/$2/post'
BlogWildcard ==
    Rule(<<"/", "b", "l", "o", "g", "/", "*", "/", "*", "/", "p", "o", "s", "t">>,
         <<"/", "a", "r", "t", "i", "c", "l", "e", "s", "/", "$", "1", "/", "$", "2", "/", "p", "o", "s", "t">>,
         FALSE, HTTP_301)

\* '/product/(\d+)' -> '/items/$1'
ProductRegex ==
    Rule(<<"/", "p", "r", "o", "d", "u", "c", "t", "/", "(", "\\", "d", "+", ")">>,
         <<"/", "i", "t", "e", "m", "s", "/", "$", "1">>, TRUE, HTTP_302)

\* '/(.*)/(.*)' -> '/t/$1/$2'
TwoGroups ==
    Rule(<<"/", "(", ".", "*", ")", "/", "(", ".", "*", ")">>,
         <<"/", "t", "/", "$", "1", "/", "$", "2">>, TRUE, HTTP_307)

MatchRules == {OldPage, BlogWildcard, ProductRegex, TwoGroups}

OldPagePath == <<"/", "o", "l", "d", "-", "p", "a", "g", "e">>
OldPage2Path == <<"/", "o", "l", "d", "-", "p", "a", "g", "e", "-", "2">>
OldPageNewlinePath == <<"/", "o", "l", "d", "-", "p", "a", "g", "e", "\n">>
BlogPath == <<"/", "b", "l", "o", "g", "/", "2", "0", "2", "3", "/", "1", "2", "/", "p", "o", "s", "t">>
ProductPath == <<"/", "p", "r", "o", "d", "u", "c", "t", "/", "1", "2", "3">>
ProductAbcPath == <<"/", "p", "r", "o", "d", "u", "c", "t", "/", "a", "b", "c">>
ProductReviewsPath == <<"/", "p", "r", "o", "d", "u", "c", "t", "/", "1", "2", "3", "/", "r", "e", "v", "i", "e", "w", "s">>
DollarPath == <<"/", "$", "2", "/", "x">>
UnrelatedPath == <<"/", "t", "o", "t", "a", "l", "l", "y", "/", "u", "n", "r", "e", "l", "a", "t", "e", "d">>

MatchPaths ==
    {OldPagePath, OldPage2Path, OldPageNewlinePath, BlogPath, ProductPath,
     ProductAbcPath, ProductReviewsPath, DollarPath, UnrelatedPath}

Priorities == {100, 200}

-----------------------------------------------------------------------------
(* RedirectManager.find_redirect.                                          *)

None == [kind |-> "none", url |-> <<>>, status_code |-> 0]

\* re.error leaves find_redirect: nothing in it catches the exception
Raised == [kind |-> "raised", url |-> <<>>, status_code |-> 0]

\* no such call
NoCall == [kind |-> "nocall", url |-> <<>>, status_code |-> 0]

Found(url, status) == [kind |-> "found", url |-> url, status_code |-> status]

\* a comes before b under ordering = ['-priority', '-created_at']
Before(a, b) ==
    \/ a.priority > b.priority
    \/ a.priority = b.priority /\ a.created_at > b.created_at

RECURSIVE order_by(_, _)
order_by(tbl, S) ==
    IF S = {} THEN <<>>
    ELSE LET first == CHOOSE i \in S : \A j \in S \ {i} : ~Before(tbl[j], tbl[i])
         IN <<tbl[first]>> \o order_by(tbl, S \ {first})

\* the rows without the is_active filter (RedirectPattern.objects.order_by(...))
AllOrdered(tbl) == order_by(tbl, 1..Len(tbl))

\* RedirectPattern.objects.filter(is_active=True).order_by('-priority', '-created_at')
ActiveOrdered(tbl) == order_by(tbl, {i \in 1..Len(tbl) : tbl[i].is_active})

\* the loop with str(group) in the place of (group or ''): a group that is
\* None is written as 'None'
RECURSIVE replace_groups_str(_, _, _)
replace_groups_str(redirect_url, groups, i) ==
    IF i > Len(groups) THEN redirect_url
    ELSE replace_groups_str(
             str_replace(redirect_url, <<"$">> \o str_int(i),
                         IF groups[i].m THEN groups[i].v ELSE <<"N", "o", "n", "e">>),
             groups, i + 1)

\* for i, group in enumerate(match.groups(), start=1):
\*     redirect_url = redirect_url.replace(f'${i}', group or '')
RECURSIVE replace_groups(_, _, _)
replace_groups(redirect_url, groups, i) ==
    IF i > Len(groups) THEN redirect_url
    ELSE replace_groups(
             str_replace(redirect_url, <<"$">> \o str_int(i),
                         IF groups[i].m THEN groups[i].v ELSE <<>>),
             groups, i + 1)

\* re.escape(redirect.url_pattern).replace('\\*', '.*'), between ^ and $
wildcard_pattern(url_pattern) ==
    <<"^">> \o str_replace(re_escape(url_pattern), <<"\\", "*">>, <<".", "*">>) \o <<"$">>

\* the body of the loop for one row: [status |-> "match", hit |-> the
\* returned dict], "nomatch" (the loop goes on) or "error" (re.error)
\* if match: ... return {'url': redirect_url, 'status_code': redirect.status_code}
regex_branch(redirect, match) ==
    IF match.status = "match"
    THEN [status |-> "match",
          hit |-> Found(replace_groups(redirect.redirect_url, match.groups, 1),
                        redirect.status_code)]
    ELSE [status |-> match.status, hit |-> None]

\* if match: return {'url': redirect.redirect_url, 'status_code': redirect.status_code}
wildcard_branch(redirect, match) ==
    IF match.status = "match"
    THEN [status |-> "match",
          hit |-> Found(redirect.redirect_url, redirect.status_code)]
    ELSE [status |-> match.status, hit |-> None]

try_redirect(redirect, url) ==
    IF redirect.is_regex
    THEN regex_branch(redirect, re_match(redirect.url_pattern, url))
    ELSE wildcard_branch(redirect, re_match(wildcard_pattern(redirect.url_pattern), url))

\* the for loop: the first row that matches returns, a row whose pattern
\* does not compile raises, the end of the rows returns None
RECURSIVE scan(_, _)
RECURSIVE scan_from(_, _, _)

scan(rows, url) ==
    IF rows = <<>> THEN None
    ELSE scan_from(try_redirect(Head(rows), url), Tail(rows), url)

\* a loop that keeps the match in a variable and returns it after the loop:
\* the last row that matches decides
last_match(t, later) == IF later.kind # "none" THEN later ELSE t.hit

scan_to_end(t, rest, url) ==
    CASE t.status = "match" -> last_match(t, scan(rest, url))
      [] t.status = "error" -> Raised
      [] OTHER -> scan(rest, url)

\* t is what the loop body did with the row before rest
scan_from(t, rest, url) ==
    CASE t.status = "match" -> t.hit
      [] t.status = "error" -> Raised
      [] OTHER -> scan(rest, url)

find_redirect(tbl, url) == scan(ActiveOrdered(tbl), url)

-----------------------------------------------------------------------------
(* django.conf.settings and the classes that read it when their module is  *)
(* imported.  settings is a function from the names that are set to their  *)
(* values; a dict is a function from its keys, {} the function of no key.  *)

\* getattr(obj, name, default)
getattr(obj, name, default) == IF name \in DOMAIN obj THEN obj[name] ELSE default

\* language codes
en == <<"e", "n">>
fr == <<"f", "r">>
es == <<"e", "s">>
en_us == <<"e", "n", "-", "u", "s">>

\* LANGUAGE_CODE and LANGUAGES of a project that sets neither
\* (django/conf/global_settings.py, its list of languages cut to two)
global_settings ==
    [name \in {"LANGUAGE_CODE", "LANGUAGES"} |->
        IF name = "LANGUAGE_CODE" THEN en_us
        ELSE <<<<en, "English">>, <<fr, "French">>>>]

\* the body of class I18nConfig, run once with the settings s of that moment
import_i18n(s) ==
    [CACHE_TIMEOUT |-> getattr(s, "SEO_I18N_CACHE_TIMEOUT", 3600),
     DEFAULT_LANGUAGE |-> getattr(s, "LANGUAGE_CODE", en),
     SUPPORTED_LANGUAGES |-> getattr(s, "LANGUAGES", <<<<en, "English">>>>),
     URL_TYPE |-> getattr(s, "SEO_I18N_URL_TYPE", "prefix"),
     DOMAIN_MAPPING |-> getattr(s, "SEO_I18N_DOMAIN_MAPPING", <<>>)]

\* AsyncConfig.MAX_CONCURRENT_REQUESTS, read from the settings s when
\* async_utils.py is imported
MAX_CONCURRENT_REQUESTS(s) == getattr(s, "SEO_MAX_CONCURRENT_REQUESTS", 10)

\* AsyncSEOAnalyzer.__init__: asyncio.Semaphore(AsyncConfig.MAX_CONCURRENT_REQUESTS)
new_semaphore(s) == MAX_CONCURRENT_REQUESTS(s)

-----------------------------------------------------------------------------
(* Operations.                                                             *)

\* the threads that call find_redirect at the same time
Callers == {1, 2}

\* a caller with no call running
Idle == [pc |-> "idle", url |-> <<>>, rows |-> <<>>, result |-> NoCall]

Init ==
    /\ table = <<>>
    /\ clock = 1
    /\ op = "init"
    /\ arg = <<>>
    /\ result = NoCall
    /\ before = NoCall
    /\ calls = [c \in Callers |-> Idle]
    /\ settings = global_settings
    /\ I18nConfig = import_i18n(global_settings)
    /\ active_language = en_us
    /\ cache = <<>>
    /\ tasks = <<>>
    /\ semaphore = new_semaphore(settings)

\* RedirectPattern.objects.create(...): the row is saved as given, with
\* is_active at its default and created_at set by auto_now_add
ObjectsCreate(rule, priority) ==
    /\ table' = Append(table,
                       [url_pattern |-> rule.url_pattern,
                        redirect_url |-> rule.redirect_url,
                        is_regex |-> rule.is_regex,
                        status_code |-> rule.status_code,
                        priority |-> priority,
                        is_active |-> TRUE,
                        created_at |-> clock])
    /\ clock' = clock + 1
    /\ op' = "create"
    /\ arg' = <<>>
    /\ result' = NoCall
    /\ before' = NoCall
    /\ UNCHANGED <<calls, elsewhere>>

\* an edit of a row's is_active flag (row.is_active = active; row.save())
SetActive(pk, active) ==
    /\ pk \in 1..Len(table)
    /\ table[pk].is_active # active
    /\ table' = [table EXCEPT ![pk].is_active = active]
    /\ op' = "set_active"
    /\ arg' = <<>>
    /\ result' = NoCall
    /\ before' = NoCall
    /\ UNCHANGED <<clock, calls, elsewhere>>

\* a find_redirect that switches the row it returned from off
\* (redirect.is_active = False; redirect.save() before the return)
FindRedirectOnce(url) ==
    /\ result' = find_redirect(table, url)
    /\ arg' = url
    /\ op' = "find_redirect"
    /\ before' = IF op = "find_redirect" /\ arg = url THEN result ELSE NoCall
    /\ table' = [pk \in 1..Len(table) |->
                    IF /\ table[pk].is_active
                       /\ try_redirect(table[pk], url).status = "match"
                       /\ try_redirect(table[pk], url).hit = find_redirect(table, url)
                    THEN [table[pk] EXCEPT !.is_active = FALSE]
                    ELSE table[pk]]
    /\ UNCHANGED <<clock, calls, elsewhere>>

\* a find_redirect that saves the url it returns as the target of the row
\* it returned from (redirect.redirect_url = redirect_url; redirect.save())
FindRedirectSaving(url) ==
    /\ result' = find_redirect(table, url)
    /\ arg' = url
    /\ op' = "find_redirect"
    /\ before' = IF op = "find_redirect" /\ arg = url THEN result ELSE NoCall
    /\ table' = [pk \in 1..Len(table) |->
                    IF /\ table[pk].is_active
                       /\ try_redirect(table[pk], url).status = "match"
                       /\ try_redirect(table[pk], url).hit = find_redirect(table, url)
                    THEN [table[pk] EXCEPT !.redirect_url = find_redirect(table, url).url]
                    ELSE table[pk]]
    /\ UNCHANGED <<clock, calls, elsewhere>>

\* a find_redirect of a manager that reads the rows once and keeps them:
\* the row created last is not among the rows it scans
FindRedirectStale(url) ==
    /\ result' = find_redirect(SubSeq(table, 1, Len(table) - 1), url)
    /\ arg' = url
    /\ op' = "find_redirect"
    /\ before' = IF op = "find_redirect" /\ arg = url THEN result ELSE NoCall
    /\ UNCHANGED <<table, clock, calls, elsewhere>>

\* manager.find_redirect(url)
FindRedirect(url) ==
    /\ result' = find_redirect(table, url)
    /\ arg' = url
    /\ op' = "find_redirect"
    /\ before' = IF op = "find_redirect" /\ arg = url THEN result ELSE NoCall
    /\ UNCHANGED <<table, clock, calls, elsewhere>>

Next ==
    \/ \E rule \in Rules, priority \in Priorities :
          Len(table) < MaxRules /\ ObjectsCreate(rule, priority)
    \/ \E pk \in 1..Len(table), active \in BOOLEAN : SetActive(pk, active)
    \/ \E url \in Paths : FindRedirect(url)

Spec == Init /\ [][Next]_vars

NextMatch ==
    \/ \E rule \in MatchRules, priority \in Priorities :
          Len(table) < MaxMatchRules /\ ObjectsCreate(rule, priority)
    \/ \E pk \in 1..Len(table), active \in BOOLEAN : SetActive(pk, active)
    \/ \E url \in MatchPaths : FindRedirect(url)

SpecMatch == Init /\ [][NextMatch]_vars

-----------------------------------------------------------------------------
(* What the properties below speak of.                                     *)

\* the state is the return of a find_redirect call
Called == op = "find_redirect"

\* the rows with is_active set
Live == {pk \in 1..Len(table) : table[pk].is_active}

\* what the loop body does with row pk for the url of the call
Tried(pk) == try_redirect(table[pk], arg)

\* the active rows whose pattern matches the url of the call
Matching == {pk \in Live : Tried(pk).status = "match"}

\* the active rows whose pattern does not compile
Broken == {pk \in Live : Tried(pk).status = "error"}

\* the row of S that the ordering puts first
First(S) == CHOOSE pk \in S : \A q \in S \ {pk} : Before(table[pk], table[q])

\* the rows of S with the highest priority in S
Top(S) == {pk \in S : \A q \in S : table[q].priority <= table[pk].priority}

\* the row of S created last
Newest(S) == CHOOSE pk \in S : \A q \in S : table[q].created_at <= table[pk].created_at

-----------------------------------------------------------------------------
(* Properties of the order of the rows, under Spec.                        *)

\* C1: a result of find_redirect comes from a row that is active at the
\* time of the call and matches the url; no inactive row is returned from,
\* also where an inactive row of higher priority matches.
C1_OnlyActiveRows ==
    (Called /\ result.kind = "found")
        => \E pk \in Matching : result = Tried(pk).hit

\* a call that found a redirect while an inactive row of higher priority
\* than every active row matches its url, with another target
C1_Witness ==
    /\ Called
    /\ result.kind = "found"
    /\ \E pk \in 1..Len(table) :
          /\ ~table[pk].is_active
          /\ Tried(pk).status = "match"
          /\ Tried(pk).hit # result
          /\ \A q \in Live : table[q].priority < table[pk].priority

\* C2: where two or more active rows match the url, find_redirect returns
\* the target and the status code of a matching row of the highest
\* priority among them, whatever the kinds of the rows and the order of
\* their creation.
C2_HighestPriorityWins ==
    (Called /\ Cardinality(Matching) >= 2)
        => \E pk \in Top(Matching) : result = Tried(pk).hit

\* C3: where several active rows that match the url share the highest
\* priority, find_redirect returns from the one created last.
C3_NewestOfTheTopWins ==
    (Called /\ Cardinality(Top(Matching)) >= 2)
        => result = Tried(Newest(Top(Matching))).hit

\* C8: the url and the status code that find_redirect returns both come
\* from the first row, in the order of the scan, that matches; no row
\* after it has a part in the result.
C8_FirstMatchDecides ==
    (Called /\ result.kind = "found")
        => /\ Matching # {}
           /\ result.url = Tried(First(Matching)).hit.url
           /\ result.status_code = Tried(First(Matching)).hit.status_code

\* a call that found a redirect while a later row matches too and would
\* give another url and another status code
C8_Witness ==
    /\ Called
    /\ result.kind = "found"
    /\ \E q \in Matching \ {First(Matching)} :
          /\ Tried(q).hit.url # result.url
          /\ Tried(q).hit.status_code # result.status_code

\* C9: find_redirect returns None, and raises nothing, exactly where no
\* active row matches the url; the empty table is one such case.
C9_NoneIffNoMatch ==
    Called => /\ result.kind # "raised"
              /\ (result = None) <=> (Matching = {})

-----------------------------------------------------------------------------
(* Properties of matching and substitution, under SpecMatch.               *)

\* the text of capture group i of a match, '' for a group that is None
GroupText(groups, i) == IF groups[i].m THEN groups[i].v ELSE <<>>

\* the placeholders $1 .. $n (n = Len(groups) <= 9) that start at target[i]
PlaceholdersAt(target, groups, i) ==
    {k \in 1..Len(groups) : StartsWithAt(target, i, <<"$">> \o str_int(k))}

\* target with every placeholder $i of a group replaced by the text of
\* group i, in one pass over the target: the text put in is not read again
RECURSIVE SubstitutedFrom(_, _, _)
SubstitutedFrom(target, groups, i) ==
    IF i > Len(target) THEN <<>>
    ELSE IF PlaceholdersAt(target, groups, i) # {}
    THEN GroupText(groups, CHOOSE k \in PlaceholdersAt(target, groups, i) : TRUE)
             \o SubstitutedFrom(target, groups, i + 2)
    ELSE <<target[i]>> \o SubstitutedFrom(target, groups, i + 1)

Substituted(target, groups) == SubstitutedFrom(target, groups, 1)

\* the texts the '*' of a wildcard pattern stand for in url, in order of
\* appearance: the pattern with every '*' a capturing (.*), matched whole
WildcardGroups(url_pattern, url) ==
    re_match(str_replace(re_escape(url_pattern), <<"\\", "*">>, <<"(", ".", "*", ")">>)
                 \o <<"\\", "Z">>,
             url).groups

\* the pattern matched against the whole of the string (re.fullmatch)
re_fullmatch(pattern, string) == re_match(pattern \o <<"\\", "Z">>, string)

\* the row the call returned from
Decisive == First(Matching)

\* C4: with one active row, not a regex and without '*' in its pattern,
\* find_redirect returns the row's target and status code where the path
\* is equal to the pattern character for character, and None for every
\* other path, also one that starts with or contains the pattern.
C4_LiteralMatchesOnlyItself ==
    (Called /\ Cardinality(Live) = 1)
        => \A pk \in Live :
              (~table[pk].is_regex /\ ~Contains(table[pk].url_pattern, <<"*">>))
                  => result = IF arg = table[pk].url_pattern
                              THEN Found(table[pk].redirect_url, table[pk].status_code)
                              ELSE None

\* C5: where the row find_redirect returns from is not a regex and has '*'
\* in its pattern, the returned url is the row's target with every $i
\* replaced by the text the i-th '*' matched; no $i of a matched '*' is
\* left in it.
C5_WildcardSubstituted ==
    (Called /\ result.kind = "found" /\ Matching # {})
        => ((~table[Decisive].is_regex /\ Contains(table[Decisive].url_pattern, <<"*">>))
               => result.url = Substituted(table[Decisive].redirect_url,
                                           WildcardGroups(table[Decisive].url_pattern, arg)))

\* C6: where the row find_redirect returns from is a regex, the returned
\* url is the row's target with every $i replaced by capture group i of
\* the match; with one active row, a regex that does not match the path,
\* the result is None.
C6_RegexSubstituted ==
    /\ (Called /\ result.kind = "found" /\ Matching # {})
          => (table[Decisive].is_regex
                 => result.url = Substituted(table[Decisive].redirect_url,
                                             re_match(table[Decisive].url_pattern, arg).groups))
    /\ (Called /\ Cardinality(Live) = 1)
          => \A pk \in Live :
                (table[pk].is_regex /\ re_match(table[pk].url_pattern, arg).status = "nomatch")
                    => result = None

\* C7: a regex row matches a path only where its pattern matches the whole
\* of the path, from its start to its end; a match of a proper prefix of
\* the path is no match of the row.
C7_RegexMatchesWholePath ==
    Called => \A pk \in Live :
                 (table[pk].is_regex /\ Tried(pk).status = "match")
                     => re_fullmatch(table[pk].url_pattern, arg).status = "match"

-----------------------------------------------------------------------------
(* Rows whose pattern does not compile, under Spec.                        *)

\* the table as it is with the rows of S out of the active set
Without(S) ==
    [pk \in 1..Len(table) |->
        IF pk \in S THEN [table[pk] EXCEPT !.is_active = FALSE] ELSE table[pk]]

\* C11: an active regex row whose pattern does not compile is skipped:
\* find_redirect raises nothing and returns what it returns with such rows
\* out of the table.
C11_InvalidRegexSkipped ==
    Called => /\ result.kind # "raised"
              /\ result = find_redirect(Without(Broken), arg)

-----------------------------------------------------------------------------
(* RedirectPattern.clean, Model.full_clean and                             *)
(* RedirectManager.create_redirect.                                        *)

LowerChars ==
    <<"a", "b", "c", "d", "e", "f", "g", "h", "i", "j", "k", "l", "m",
      "n", "o", "p", "q", "r", "s", "t", "u", "v", "w", "x", "y", "z">>

UpperChars ==
    <<"A", "B", "C", "D", "E", "F", "G", "H", "I", "J", "K", "L", "M",
      "N", "O", "P", "Q", "R", "S", "T", "U", "V", "W", "X", "Y", "Z">>

Letters == {LowerChars[i] : i \in 1..Len(LowerChars)}

\* str.lower, for ASCII
lower_char(c) ==
    IF \E i \in 1..Len(UpperChars) : UpperChars[i] = c
    THEN LowerChars[CHOOSE i \in 1..Len(UpperChars) : UpperChars[i] = c]
    ELSE c

lower(s) == [i \in 1..Len(s) |-> lower_char(s[i])]

\* str.find: the index of the first occurrence of t in s, 0 for none
find(s, t) ==
    IF Contains(s, t)
    THEN CHOOSE i \in 1..Len(s) :
             StartsWithAt(s, i, t) /\ \A j \in 1..(i - 1) : ~StartsWithAt(s, j, t)
    ELSE 0

\* the index of the first character of s that is in the set cs, Len(s) + 1
\* for none
FirstOf(s, cs) ==
    IF \E i \in 1..Len(s) : s[i] \in cs
    THEN CHOOSE i \in 1..Len(s) : s[i] \in cs /\ \A j \in 1..(i - 1) : s[j] \notin cs
    ELSE Len(s) + 1

\* str.split('.')
RECURSIVE split_dots(_)
split_dots(s) ==
    IF FirstOf(s, {"."}) > Len(s) THEN <<s>>
    ELSE <<SubSeq(s, 1, FirstOf(s, {"."}) - 1)>>
             \o split_dots(SubSeq(s, FirstOf(s, {"."}) + 1, Len(s)))

Whitespace == {" ", "\t", "\n", "\r", "\f"}

\* URLValidator.schemes
schemes == {<<"h", "t", "t", "p">>, <<"h", "t", "t", "p", "s">>,
            <<"f", "t", "p">>, <<"f", "t", "p", "s">>}

\* URLValidator.hostname_re (first label) and domain_re (a later label):
\* letters, digits and inner hyphens, 1 to 63 characters
host_label(l) ==
    /\ Len(l) \in 1..63
    /\ \A i \in 1..Len(l) : l[i] \in Letters \cup Digits \cup {"-"}
    /\ l[1] # "-"
    /\ l[Len(l)] # "-"

\* URLValidator.tld_re: letters and inner hyphens, 2 to 63 characters
tld_label(l) ==
    /\ Len(l) \in 2..63
    /\ \A i \in 1..Len(l) : l[i] \in Letters \cup {"-"}
    /\ l[1] # "-"
    /\ l[Len(l)] # "-"

\* labels is the host split at its dots; one dot may end the host
host_labels(labels) ==
    /\ Len(labels) >= 2
    /\ \A i \in 1..(Len(labels) - 1) : host_label(labels[i])
    /\ tld_label(labels[Len(labels)])

\* URLValidator.host_re, case ignored
host_re(h) ==
    \/ h = <<"l", "o", "c", "a", "l", "h", "o", "s", "t">>
    \/ host_labels(split_dots(IF h # <<>> /\ h[Len(h)] = "." /\ Len(h) > 1
                              THEN SubSeq(h, 1, Len(h) - 1) ELSE h))

\* (?::[0-9]{1,5})?(?:[/?#][^\s]*)?\Z : what may follow the host
url_tail(t) ==
    LET p == IF t # <<>> /\ t[1] = ":" THEN DigitsEnd(t, 2) ELSE 1
    IN /\ t # <<>> /\ t[1] = ":" => p - 2 \in 1..5
       /\ p <= Len(t) => t[p] \in {"/", "?", "#"}
       /\ \A i \in p..Len(t) : t[i] \notin Whitespace

\* rest is what follows "://"
url_rest(rest) ==
    /\ host_re(lower(SubSeq(rest, 1, FirstOf(rest, {":", "/", "?", "#"}) - 1)))
    /\ url_tail(SubSeq(rest, FirstOf(rest, {":", "/", "?", "#"}), Len(rest)))

\* django.core.validators.URLValidator()(value): TRUE where it raises no
\* ValidationError.  The scheme, value.split('://')[0].lower(), is one of
\* schemes, and the value matches scheme://host[:port][/?#...]; hosts that
\* are IP literals, user:password@ and non-ASCII hosts are outside the
\* model and occur in no value below.
URLValidator(value) ==
    /\ \A i \in 1..Len(value) : value[i] \notin {"\t", "\r", "\n"}
    /\ find(value, <<":", "/", "/">>) # 0
    /\ lower(SubSeq(value, 1, find(value, <<":", "/", "/">>) - 1)) \in schemes
    /\ url_rest(SubSeq(value, find(value, <<":", "/", "/">>) + 3, Len(value)))

\* any(f'${i}' in self.redirect_url for i in range(10))
uses_capture_groups(redirect_url) ==
    \E i \in 0..9 : Contains(redirect_url, <<"$">> \o str_int(i))

\* RedirectPattern.clean: the exception that leaves it, "" for none.
\* c is re.compile(self.url_pattern); only re.error is caught there.
clean_compiled(redirect, c) ==
    IF redirect.is_regex /\ ~c.ok
    THEN (IF c.err = "re.error" THEN "ValidationError" ELSE c.err)
    ELSE IF ~uses_capture_groups(redirect.redirect_url) /\ ~URLValidator(redirect.redirect_url)
    THEN "ValidationError"
    ELSE ""

clean(redirect) == clean_compiled(redirect, re_compile(redirect.url_pattern))

\* CharField(max_length=255)
max_length == 255

\* the choices of status_code
choices == {HTTP_301, HTTP_302, HTTP_307, HTTP_308}

\* full_clean without clean_fields: no field is looked at
no_clean_fields(redirect) == {}

\* Model.clean_fields: the fields with an error.  url_pattern and
\* redirect_url must not be blank nor longer than max_length, status_code
\* must be one of the choices.
clean_fields(redirect) ==
    {f \in {"url_pattern", "redirect_url"} :
        redirect[f] = <<>> \/ Len(redirect[f]) > max_length}
    \cup (IF redirect.status_code \in choices THEN {} ELSE {"status_code"})

\* Model.full_clean: clean_fields, then clean, the ValidationErrors of
\* both collected and raised at the end; another exception of clean leaves
\* full_clean at once.  raised is what clean raised.
full_clean_with(redirect, raised) ==
    IF raised \notin {"", "ValidationError"} THEN raised
    ELSE IF clean_fields(redirect) # {} \/ raised = "ValidationError" THEN "ValidationError"
    ELSE ""

full_clean(redirect) == full_clean_with(redirect, clean(redirect))

\* create_redirect returned the saved row
Created == [kind |-> "created", url |-> <<>>, status_code |-> 0]

\* create_redirect raised ValidationError
Invalid == [kind |-> "ValidationError", url |-> <<>>, status_code |-> 0]

\* create_redirect raised err, an exception other than ValidationError
Failed(err) == [kind |-> err, url |-> <<>>, status_code |-> 0]

\* manager.create_redirect(url_pattern, redirect_url, status_code, is_regex,
\* priority=priority): full_clean, then save.  raised is what full_clean
\* raised; arg keeps the arguments of the call.
create_redirect_with(redirect, raised) ==
    /\ IF raised = ""
       THEN /\ table' = Append(table, [redirect EXCEPT !.created_at = clock])
            /\ clock' = clock + 1
            /\ result' = Created
       ELSE /\ UNCHANGED <<table, clock>>
            /\ result' = IF raised = "ValidationError" THEN Invalid ELSE Failed(raised)
    /\ op' = "create_redirect"
    /\ arg' = redirect
    /\ before' = NoCall
    /\ UNCHANGED <<calls, elsewhere>>

CreateRedirect(rule, status_code, priority) ==
    create_redirect_with(
        [url_pattern |-> rule.url_pattern, redirect_url |-> rule.redirect_url,
         is_regex |-> rule.is_regex, status_code |-> status_code,
         priority |-> priority, is_active |-> TRUE, created_at |-> 0],
        full_clean([url_pattern |-> rule.url_pattern, redirect_url |-> rule.redirect_url,
                    is_regex |-> rule.is_regex, status_code |-> status_code,
                    priority |-> priority, is_active |-> TRUE, created_at |-> 0]))

\* The calls of SpecCreate: targets that are absolute URLs, relative
\* paths, and paths with $1 or $0 in them; patterns that compile and
\* patterns at which re.compile raises re.error or OverflowError.

ExampleUrl == <<"h", "t", "t", "p", "s", ":", "/", "/", "e", ".", "i", "o", "/", "n">>

\* '/old' -> 'https://e.io/n'
ToAbsolute == Rule(<<"/", "o", "l", "d">>, ExampleUrl, FALSE, HTTP_301)

\* '/old' -> '/new'
ToRelative == Rule(<<"/", "o", "l", "d">>, <<"/", "n", "e", "w">>, FALSE, HTTP_301)

\* '/old' -> '/x$0'
ToDollarZero == Rule(<<"/", "o", "l", "d">>, <<"/", "x", "$", "0">>, FALSE, HTTP_301)

\* '/a/(\d+)' -> '/b/$1'
DigitsRegex ==
    Rule(<<"/", "a", "/", "(", "\\", "d", "+", ")">>, <<"/", "b", "/", "$", "1">>, TRUE, HTTP_301)

\* '/(a' -> 'https://e.io/n': re.error
UnclosedRegex == Rule(<<"/", "(", "a">>, ExampleUrl, TRUE, HTTP_301)

\* '/a{4294967295}' -> 'https://e.io/n': OverflowError
HugeRepeatRegex ==
    Rule(<<"/", "a", "{">> \o MAXREPEAT \o <<"}">>, ExampleUrl, TRUE, HTTP_301)

CreateRules ==
    {ToAbsolute, ToRelative, ToDollarZero, DigitsRegex, UnclosedRegex, HugeRepeatRegex}

\* status_code arguments: two of the choices and 200
StatusCodes == {HTTP_301, HTTP_308, 200}

CreatePaths == {<<"/", "o", "l", "d">>, <<"/", "a", "/", "7">>}

\* rows the table may hold under SpecCreate
MaxCreated == 2

NextCreate ==
    \/ \E rule \in CreateRules, status_code \in StatusCodes, priority \in Priorities :
          Len(table) < MaxCreated /\ CreateRedirect(rule, status_code, priority)
    \/ \E pk \in 1..Len(table), active \in BOOLEAN : SetActive(pk, active)
    \/ \E url \in CreatePaths : FindRedirect(url)

SpecCreate == Init /\ [][NextCreate]_vars

-----------------------------------------------------------------------------
(* Properties of create_redirect, under SpecCreate.                        *)

\* the step is a create_redirect call
CreateCalled == op' = "create_redirect"

\* the target has one of the placeholders $1, $2, ... in it
HasPlaceholder(redirect_url) ==
    \E i \in 1..9 : Contains(redirect_url, <<"$">> \o str_int(i))

\* C12: create_redirect with is_regex set and a pattern that does not
\* compile raises ValidationError and leaves the table as it was; every
\* regex row of the table compiles.
C12_InvalidRegexRejected ==
    [][/\ (CreateCalled /\ arg'.is_regex /\ ~re_compile(arg'.url_pattern).ok)
             => (result' = Invalid /\ table' = table)
       /\ \A pk \in 1..Len(table') :
             table'[pk].is_regex => re_compile(table'[pk].url_pattern).ok]_vars

\* C13: create_redirect with a target that has no placeholder $1, $2, ...
\* in it and is no valid absolute URL raises ValidationError and saves
\* nothing; a target with a placeholder in it is not checked as a URL; every
\* target of the table without a placeholder is a valid absolute URL.
C13_TargetUrlValidated ==
    [][/\ (CreateCalled /\ ~HasPlaceholder(arg'.redirect_url)
                        /\ ~URLValidator(arg'.redirect_url))
             => (result' = Invalid /\ table' = table)
       /\ (CreateCalled /\ HasPlaceholder(arg'.redirect_url)
                        /\ arg'.status_code \in choices
                        /\ (arg'.is_regex => re_compile(arg'.url_pattern).ok))
             => result' = Created
       /\ \A pk \in 1..Len(table') :
             ~HasPlaceholder(table'[pk].redirect_url)
                 => URLValidator(table'[pk].redirect_url)]_vars

\* C14: every status code find_redirect returns is one of 301, 302, 307,
\* 308: create_redirect saves no row with another status code, and
\* find_redirect returns the status code of the row.
C14_StatusCodeIsARedirect ==
    /\ (Called /\ result.kind = "found")
          => result.status_code \in {HTTP_301, HTTP_302, HTTP_307, HTTP_308}
    /\ (op = "create_redirect" /\ arg.status_code \notin {HTTP_301, HTTP_302, HTTP_307, HTTP_308})
          => result # Created
    /\ \A pk \in 1..Len(table) :
          table[pk].status_code \in {HTTP_301, HTTP_302, HTTP_307, HTTP_308}

\* a call that returns a status code other than the default, from a table
\* whose rows create_redirect saved with two status codes
C14_Witness ==
    /\ Called
    /\ result.kind = "found"
    /\ result.status_code = HTTP_308
    /\ \E pk \in 1..Len(table) : table[pk].status_code = HTTP_301

-----------------------------------------------------------------------------
(* find_redirect and the table, under SpecCreate.                          *)

\* C15: find_redirect changes nothing in the table, whatever the path and
\* whatever it returns or raises: no row is added or removed and no field
\* of a row changes; the target of the row it returns from stays as stored
\* where the returned url is the target with the groups put in.
C15_TableUnchanged ==
    [][op' = "find_redirect" => (table' = table /\ clock' = clock)]_vars

\* a call that returns a url other than the stored target of the row it
\* returns from
C15_Witness ==
    /\ Called
    /\ result.kind = "found"
    /\ result.url # table[Decisive].redirect_url

-----------------------------------------------------------------------------
(* SpecGroups: rows whose target names more groups than the pattern has,   *)
(* whose group may take no part in a match, and non-regex rows with a      *)
(* regex metacharacter or a '*' in the pattern.                            *)

\* '/a/(\d+)' -> '/b/$1/$2'
BeyondGroups ==
    Rule(<<"/", "a", "/", "(", "\\", "d", "+", ")">>,
         <<"/", "b", "/", "$", "1", "/", "$", "2">>, TRUE, HTTP_301)

\* '/a/(\d+)?' -> '/c/$1/e'
OptionalGroup ==
    Rule(<<"/", "a", "/", "(", "\\", "d", "+", ")", "?">>,
         <<"/", "c", "/", "$", "1", "/", "e">>, TRUE, HTTP_302)

\* '/a.b' -> '/d'
DotLiteral == Rule(<<"/", "a", ".", "b">>, <<"/", "d">>, FALSE, HTTP_307)

\* '/a*' -> '/w'
StarWildcard == Rule(<<"/", "a", "*">>, <<"/", "w">>, FALSE, HTTP_308)

GroupRules == {BeyondGroups, OptionalGroup, DotLiteral, StarWildcard}

GroupPaths ==
    {<<"/", "a", "/", "7">>, <<"/", "a", "/">>, <<"/", "a">>,
     <<"/", "a", ".", "b">>, <<"/", "a", "X", "b">>,
     <<"/", "a", ".", "b", "\n">>, <<"/", "a", "\n", "b">>}

\* rows the table may hold under SpecGroups
MaxGroupRules == 2

NextGroups ==
    \/ \E rule \in GroupRules, priority \in Priorities :
          Len(table) < MaxGroupRules /\ ObjectsCreate(rule, priority)
    \/ \E pk \in 1..Len(table), active \in BOOLEAN : SetActive(pk, active)
    \/ \E url \in GroupPaths : FindRedirect(url)

SpecGroups == Init /\ [][NextGroups]_vars

-----------------------------------------------------------------------------
(* Properties of groups and of non-regex patterns, under SpecGroups.       *)

\* target with every $1 .. $9 replaced in one pass: by the text of the
\* group of that number, by nothing for a group that is None and for a
\* number above the number of groups
RECURSIVE SubstitutedOrEmptyFrom(_, _, _)
SubstitutedOrEmptyFrom(target, groups, i) ==
    IF i > Len(target) THEN <<>>
    ELSE IF \E k \in 1..9 : StartsWithAt(target, i, <<"$">> \o str_int(k))
    THEN (IF PlaceholdersAt(target, groups, i) # {}
          THEN GroupText(groups, CHOOSE k \in PlaceholdersAt(target, groups, i) : TRUE)
          ELSE <<>>)
             \o SubstitutedOrEmptyFrom(target, groups, i + 2)
    ELSE <<target[i]>> \o SubstitutedOrEmptyFrom(target, groups, i + 1)

SubstitutedOrEmpty(target, groups) == SubstitutedOrEmptyFrom(target, groups, 1)

\* the groups of the match of row pk with the url of the call
GroupsOf(pk) == re_match(table[pk].url_pattern, arg).groups

\* the target of row pk names a group above the number of groups of its
\* pattern
NamesGroupBeyond(pk) ==
    \E k \in 1..9 : /\ k > Len(GroupsOf(pk))
                    /\ Contains(table[pk].redirect_url, <<"$">> \o str_int(k))

\* the target of row pk names a group that took no part in the match
NamesGroupUnmatched(pk) ==
    \E k \in 1..Len(GroupsOf(pk)) :
        /\ ~GroupsOf(pk)[k].m
        /\ Contains(table[pk].redirect_url, <<"$">> \o str_int(k))

\* C17: a $i in the target with i above the number of groups of the
\* pattern that matched is replaced by nothing in the returned url; it is
\* not left in it as the text '$i'.
C17_BeyondGroupsEmpty ==
    (Called /\ result.kind = "found" /\ Matching # {})
        => ((table[Decisive].is_regex /\ NamesGroupBeyond(Decisive))
               => result.url = SubstitutedOrEmpty(table[Decisive].redirect_url,
                                                  GroupsOf(Decisive)))

\* C18: where the first matching row is a regex and its target names a
\* group that took no part in the match, find_redirect returns, and the
\* returned url has nothing in the place of that $i.
C18_UnmatchedGroupEmpty ==
    (Called /\ Matching # {})
        => ((table[Decisive].is_regex /\ NamesGroupUnmatched(Decisive))
               => /\ result.kind = "found"
                  /\ result.url = Substituted(table[Decisive].redirect_url,
                                              GroupsOf(Decisive)))

\* a call that returns '/c//e' from the row '/a/(\d+)?' -> '/c/$1/e', the
\* group of which took no part in the match of '/a/'
C18_Witness ==
    /\ Called
    /\ result.kind = "found"
    /\ Matching # {}
    /\ table[Decisive].is_regex
    /\ NamesGroupUnmatched(Decisive)
    /\ result.url = <<"/", "c", "/", "/", "e">>

\* a pattern in which every character but '*' stands for itself and every
\* '*' for any sequence of characters, the empty one too, matches s
RECURSIVE GlobMatches(_, _)
GlobMatches(pattern, s) ==
    IF pattern = <<>> THEN s = <<>>
    ELSE IF Head(pattern) = "*"
    THEN \E k \in 0..Len(s) : GlobMatches(Tail(pattern), SubSeq(s, k + 1, Len(s)))
    ELSE s # <<>> /\ Head(s) = Head(pattern) /\ GlobMatches(Tail(pattern), Tail(s))

\* C19: a row that is not a regex matches a path exactly where the path is
\* the pattern with every '*' replaced by some sequence of characters,
\* possibly empty: '.', '?', '+', '(' and '[' in the pattern match
\* themselves only.
C19_NonRegexPatternIsLiteral ==
    Called => \A pk \in Live :
                 ~table[pk].is_regex
                     => (Tried(pk).status = "match"
                            <=> GlobMatches(table[pk].url_pattern, arg))

-----------------------------------------------------------------------------
(* find_redirect called from several threads at once.  A call is the steps *)
(* of its for loop: the queryset is built, its rows are fetched when the   *)
(* loop starts, and every iteration tries one row.  url, redirect, match   *)
(* and redirect_url are locals of the call; the manager has no attribute   *)
(* that find_redirect reads or writes.                                     *)

MaxConcurrentRules == 2

\* the call of caller c is between its first step and its return
InFlight(c) == calls[c].pc \in {"query", "loop"}

\* caller c calls manager.find_redirect(url)
Begin(c, url) ==
    /\ calls[c].pc = "idle"
    /\ calls' = [calls EXCEPT ![c] = [pc |-> "query", url |-> url,
                                       rows |-> <<>>, result |-> NoCall]]
    /\ UNCHANGED <<table, clock, op, arg, result, before, elsewhere>>

\* a manager that keeps the rows it iterates over in an attribute
\* (self.rows = iter(RedirectPattern.objects...)): a call that starts while
\* another is in its loop goes on with the rows the other has left
QueryShared(c) ==
    /\ calls[c].pc = "query"
    /\ calls' = [calls EXCEPT ![c].pc = "loop",
                              ![c].rows =
                                  IF \E d \in Callers \ {c} : calls[d].pc = "loop"
                                  THEN calls[CHOOSE d \in Callers \ {c} :
                                                 calls[d].pc = "loop"].rows
                                  ELSE ActiveOrdered(table)]
    /\ UNCHANGED <<table, clock, op, arg, result, before, elsewhere>>

\* the loop starts: the queryset of the call is evaluated
Query(c) ==
    /\ calls[c].pc = "query"
    /\ calls' = [calls EXCEPT ![c].pc = "loop",
                              ![c].rows = ActiveOrdered(table)]
    /\ UNCHANGED <<table, clock, op, arg, result, before, elsewhere>>

\* the call of caller c ends with the value r
Done(c, r) == [calls EXCEPT ![c].pc = "done", ![c].rows = <<>>, ![c].result = r]

\* t is what the loop body did with the next row of the call of caller c
iterate_with(c, t) ==
    CASE t.status = "match" -> Done(c, t.hit)
      [] t.status = "error" -> Done(c, Raised)
      [] OTHER -> [calls EXCEPT ![c].rows = Tail(calls[c].rows)]

\* the fields of a row that the loop body reads
rule_of(redirect) ==
    Rule(redirect.url_pattern, redirect.redirect_url, redirect.is_regex,
         redirect.status_code)

\* what the loop body does with a row of each rule for each path; it reads
\* nothing but the row and the url of its call
loop_body == [rule \in Rules, url \in Paths |-> try_redirect(rule, url)]

\* one iteration of the loop, or the return None after it
Iterate(c) ==
    /\ calls[c].pc = "loop"
    /\ calls' = IF calls[c].rows = <<>>
                THEN Done(c, None)
                ELSE iterate_with(c, loop_body[rule_of(Head(calls[c].rows)),
                                              calls[c].url])
    /\ UNCHANGED <<table, clock, op, arg, result, before, elsewhere>>

\* the caller takes the value of the call
Return(c) ==
    /\ calls[c].pc = "done"
    /\ calls' = [calls EXCEPT ![c] = Idle]
    /\ UNCHANGED <<table, clock, op, arg, result, before, elsewhere>>

\* the rule set changes between the calls only
NextConcurrent ==
    \/ \E rule \in Rules, priority \in Priorities :
          /\ Len(table) < MaxConcurrentRules
          /\ \A c \in Callers : calls[c].pc = "idle"
          /\ ObjectsCreate(rule, priority)
    \/ \E c \in Callers, url \in Paths : Begin(c, url)
    \/ \E c \in Callers : Query(c)
    \/ \E c \in Callers : Iterate(c)
    \/ \E c \in Callers : Return(c)

SpecConcurrent == Init /\ [][NextConcurrent]_vars

\* a thread that is in a call is scheduled again and again, whatever the
\* other threads do; nothing makes a caller call or take its value
FairConcurrent ==
    SpecConcurrent /\ \A c \in Callers : WF_vars(Query(c) \/ Iterate(c))

\* the call of every caller that has come to its end has the result that
\* find_redirect gives for its url on the rule set
EachAsAlone ==
    \A c \in Callers :
        calls[c].pc = "done" => calls[c].result = find_redirect(table, calls[c].url)

\* C20: with the rule set unchanged while calls run, every find_redirect
\* call that has come to its end has the result that find_redirect gives
\* for its url on the rule set, whatever the other callers did in between,
\* and every call that runs comes to its end whether or not the other
\* callers go on, return or stay in their calls.
C20_ConcurrentCallsIndependent ==
    /\ []EachAsAlone
    /\ \A c \in Callers : InFlight(c) ~> (calls[c].pc = "done")

\* caller 1 has found a redirect while caller 2, in a call for another url,
\* is in its loop with some rows tried and some to go
C20_Witness ==
    /\ calls[1].pc = "done"
    /\ calls[1].result.kind = "found"
    /\ calls[2].pc = "loop"
    /\ calls[2].url # calls[1].url
    /\ calls[2].rows # <<>>
    /\ Len(calls[2].rows) < Len(ActiveOrdered(table))

-----------------------------------------------------------------------------
(* i18n.py: LocalizedURLManager and HrefLangGenerator.  They read the      *)
(* attributes of I18nConfig, never settings.                               *)

\* domain = I18nConfig.DOMAIN_MAPPING.get(language); if not domain: return url
get_domain_url(config, url, language) ==
    IF language \notin DOMAIN config.DOMAIN_MAPPING
    THEN url
    ELSE IF config.DOMAIN_MAPPING[language] = <<>>
    THEN url
    ELSE <<"h", "t", "t", "p", "s", ":", "/", "/">> \o config.DOMAIN_MAPPING[language] \o url

get_prefix_url(config, url, language) ==
    IF language = config.DEFAULT_LANGUAGE
    THEN url
    ELSE <<"/">> \o language \o url

get_language_url(config, url, language) ==
    IF config.URL_TYPE = "domain"
    THEN get_domain_url(config, url, language)
    ELSE get_prefix_url(config, url, language)

x_default == <<"x", "-", "d", "e", "f", "a", "u", "l", "t">>

\* a generate_tags that adds the x-default tag after every language
every_language(config, lang_code) == TRUE

\* if lang_code == I18nConfig.DEFAULT_LANGUAGE
is_default_language(config, lang_code) == lang_code = config.DEFAULT_LANGUAGE

\* what one iteration of the loop of generate_tags appends for the language
\* pair = (lang_code, lang_name)
tags_of(config, url, pair) ==
    <<[hreflang |-> pair[1], href |-> get_language_url(config, url, pair[1])]>>
    \o IF is_default_language(config, pair[1])
       THEN <<[hreflang |-> x_default,
               href |-> get_language_url(config, url, config.DEFAULT_LANGUAGE)]>>
       ELSE <<>>

\* the loop of generate_tags from the i-th supported language on
RECURSIVE generate_from(_, _, _)
generate_from(config, url, i) ==
    IF i > Len(config.SUPPORTED_LANGUAGES) THEN <<>>
    ELSE tags_of(config, url, config.SUPPORTED_LANGUAGES[i])
         \o generate_from(config, url, i + 1)

\* HrefLangGenerator(url).generate_tags()
generate_tags(config, url) == generate_from(config, url, 1)

\* s with the setting name set to the value in opt, if opt holds one
configured(s, name, opt) ==
    IF opt = <<>> THEN s
    ELSE [n \in DOMAIN s \cup {name} |-> IF n = name THEN opt[1] ELSE s[n]]

\* the settings of SpecI18n: the default language may be missing from the
\* languages (as it is in global_settings), the url type and the domain
\* mapping may be left unset
I18nLanguages ==
    {<<<<en, "English">>, <<fr, "French">>, <<es, "Spanish">>>>,
     <<<<fr, "French">>, <<en, "English">>>>}

I18nMappings == {<<>>, <<[l \in {fr} |-> <<"f", "r", ".", "e", "x", "a", "m", "p", "l", "e", ".", "c", "o", "m">>]>>}

I18nSettings ==
    {configured(configured([name \in {"LANGUAGE_CODE", "LANGUAGES"} |->
                               IF name = "LANGUAGE_CODE" THEN code ELSE langs],
                           "SEO_I18N_URL_TYPE", type),
                "SEO_I18N_DOMAIN_MAPPING", mapping) :
        code \in {en, fr, en_us}, langs \in I18nLanguages,
        type \in {<<>>, <<"prefix">>, <<"domain">>}, mapping \in I18nMappings}

I18nUrls == {<<"/", "t", "e", "s", "t", "-", "p", "a", "g", "e">>, <<"/">>}

I18nCodes == {en, fr, es}

\* i18n.py is imported with the settings of that moment
InitI18n ==
    /\ table = <<>>
    /\ clock = 1
    /\ op = "init"
    /\ arg = <<>>
    /\ result = NoCall
    /\ before = NoCall
    /\ calls = [c \in Callers |-> Idle]
    /\ settings \in I18nSettings
    /\ I18nConfig = import_i18n(settings)
    /\ active_language = en_us
    /\ cache = <<>>
    /\ tasks = <<>>
    /\ semaphore = new_semaphore(settings)

\* the settings change while the process runs (override_settings, the
\* settings fixture of pytest-django): no module is imported again
OverrideSettings(s) ==
    /\ s # settings
    /\ settings' = s
    /\ op' = "override_settings"
    /\ arg' = <<>>
    /\ result' = NoCall
    /\ UNCHANGED <<redirects, I18nConfig, active_language, cache, tasks, semaphore>>

\* LocalizedURLManager.get_language_url(url, lang)
GetLanguageUrl(url, lang) ==
    /\ op' = "get_language_url"
    /\ arg' = <<url, lang>>
    /\ result' = get_language_url(I18nConfig, url, lang)
    /\ UNCHANGED <<redirects, elsewhere>>

\* HrefLangGenerator(url).generate_tags()
GenerateTags(url) ==
    /\ op' = "generate_tags"
    /\ arg' = url
    /\ result' = generate_tags(I18nConfig, url)
    /\ UNCHANGED <<redirects, elsewhere>>

NextI18n ==
    \/ \E s \in I18nSettings : OverrideSettings(s)
    \/ \E url \in I18nUrls, lang \in I18nCodes : GetLanguageUrl(url, lang)
    \/ \E url \in I18nUrls : GenerateTags(url)

SpecI18n == InitI18n /\ [][NextI18n]_vars

\* the codes of a LANGUAGES list
codes_of(languages) == {languages[i][1] : i \in 1..Len(languages)}

\* the tags of the result with the given hreflang
TagsFor(hreflang) == {k \in 1..Len(result) : result[k].hreflang = hreflang}

\* the state is the return of generate_tags of a generator whose default
\* language is among the supported languages
TagsWithDefault ==
    /\ op = "generate_tags"
    /\ I18nConfig.DEFAULT_LANGUAGE \in codes_of(I18nConfig.SUPPORTED_LANGUAGES)

url_by_settings(s, url, lang) ==
    IF getattr(s, "SEO_I18N_URL_TYPE", "prefix") = "domain"
    THEN IF lang \in DOMAIN getattr(s, "SEO_I18N_DOMAIN_MAPPING", <<>>)
         THEN <<"h", "t", "t", "p", "s", ":", "/", "/">> \o getattr(s, "SEO_I18N_DOMAIN_MAPPING", <<>>)[lang] \o url
         ELSE url
    ELSE IF lang = s["LANGUAGE_CODE"] THEN url ELSE <<"/">> \o lang \o url

\* C22: get_language_url(url, language) follows the url type that is
\* configured when it is called: with SEO_I18N_URL_TYPE = 'domain' it
\* returns 'https://<domain><url>' for a language that
\* SEO_I18N_DOMAIN_MAPPING gives a domain and url for any other language;
\* otherwise it returns url for the language LANGUAGE_CODE and
\* '/<language><url>' for any other language.
C22_UrlFollowsConfiguredType ==
    op = "get_language_url" => result = url_by_settings(settings, arg[1], arg[2])

-----------------------------------------------------------------------------
(* i18n.py: I18nMetadataManager.get_metadata and the cache.                *)

\* what class I18nMetadataManager and __init__ give a manager
I18nMetadataManager == {"cache_timeout", "get_metadata", "_get_base_metadata",
                        "_localize_metadata"}

\* an exception leaves the call
Raises(exception) == [kind |-> "raised", exception |-> exception]

\* the call returns value; from_cache tells the return at the cache hit
\* from the return at the end of the function
Returns(value, from_cache) ==
    [kind |-> "returned", value |-> value, from_cache |-> from_cache]

\* _get_base_metadata(path): return {}
get_base_metadata(path) == <<>>

\* _localize_metadata(metadata, lang): the arguments of LocalizedMetadata(...)
\* are evaluated in order, and self._get_localized_url is looked up for the
\* fifth, canonical_url; a manager has no such attribute
localize_metadata(metadata, lang) ==
    CASE "_get_localized_url" \notin I18nMetadataManager -> Raises("AttributeError")

\* language = translation.get_language() or I18nConfig.DEFAULT_LANGUAGE,
\* where the caller gave None (<<>>); <<lang>> is the language the caller gave
language_of(config, active, given) ==
    IF given # <<>> THEN given[1]
    ELSE IF active # <<>> THEN active
    ELSE config.DEFAULT_LANGUAGE

\* f'i18n_metadata_{path}_{language}'
metadata_key(path, lang) == <<"i", "1", "8", "n", "_", "m", "e", "t", "a", "d", "a", "t", "a", "_">> \o path \o <<"_">> \o lang

\* cache.set(key, value, timeout=...)
cache_set(entries, key, value) ==
    [k \in DOMAIN entries \cup {key} |-> IF k = key THEN value ELSE entries[k]]

\* get_metadata from the cache miss on; localized is what _localize_metadata did
get_metadata_miss(key, localized) ==
    IF localized.kind = "raised"
    THEN result' = localized /\ cache' = cache
    ELSE /\ result' = Returns(localized.value, FALSE)
         /\ cache' = cache_set(cache, key, localized.value)

get_metadata_with(key, lang) ==
    IF key \in DOMAIN cache
    THEN result' = Returns(cache[key], TRUE) /\ cache' = cache
    ELSE get_metadata_miss(key, localize_metadata(get_base_metadata(<<>>), lang))

\* manager.get_metadata(path, language)
GetMetadata(path, given) ==
    /\ op' = "get_metadata"
    /\ arg' = <<path, given>>
    /\ get_metadata_with(metadata_key(path, language_of(I18nConfig, active_language, given)),
                         language_of(I18nConfig, active_language, given))
    /\ UNCHANGED <<redirects, settings, I18nConfig, active_language, tasks, semaphore>>

\* translation.activate(lang), or translation.deactivate_all() for <<>>
Activate(lang) ==
    /\ lang # active_language
    /\ active_language' = lang
    /\ op' = "activate"
    /\ arg' = <<>>
    /\ result' = NoCall
    /\ UNCHANGED <<redirects, settings, I18nConfig, cache, tasks, semaphore>>

MetadataPaths == {<<"/", "t", "e", "s", "t", "-", "p", "a", "g", "e">>, <<"/">>, <<"/", "a">>, <<"/", "a", "_", "b">>}

MetadataLanguages == {en, fr, es}

NextMetadata ==
    \/ \E lang \in MetadataLanguages \cup {<<>>} : Activate(lang)
    \/ \E path \in MetadataPaths,
          given \in {<<>>} \cup {<<lang>> : lang \in MetadataLanguages} :
              GetMetadata(path, given)

SpecMetadata == InitI18n /\ [][NextMetadata]_vars

\* the language the call that made this state was to answer for
Requested == IF arg[2] # <<>> THEN arg[2][1] ELSE active_language

\* C23: get_metadata(path, language) returns metadata whose language is the
\* language asked for (the active language where none is given), and a
\* call that follows a call with the same path and language returns an
\* equal value, from the cache.
C23_MetadataCachedPerPathAndLanguage ==
    [][op' = "get_metadata"
          => /\ result'.kind = "returned"
             /\ (arg'[2] # <<>> \/ active_language' # <<>>)
                    => result'.value.language = Requested'
             /\ (op = "get_metadata" /\ arg = arg')
                    => (result'.from_cache /\ result'.value = result.value)]_vars

-----------------------------------------------------------------------------
(* base.py: MetadataOptions and the _meta of a MetadataBase subclass.  An  *)
(* object is the function from the names in its __dict__ to their values;  *)
(* a name that is not there is looked up in the class.                     *)

\* the class attributes of MetadataOptions
MetadataOptions ==
    [use_cache |-> TRUE, use_sites |-> TRUE, use_i18n |-> TRUE,
     use_subdomains |-> FALSE, cache_prefix |-> "seo_optimizer",
     cache_timeout |-> 3600, async_enabled |-> TRUE, max_async_workers |-> 10]

\* the settings MetadataOptions.__init__ applies after the keyword arguments
applied_settings(s) ==
    [async_enabled |-> getattr(s, "SEO_ASYNC_ENABLED", TRUE),
     cache_timeout |-> getattr(s, "SEO_CACHE_TIMEOUT", 3600),
     max_async_workers |-> getattr(s, "SEO_MAX_ASYNC_WORKERS", 10)]

\* MetadataOptions(**kwargs).__dict__ with the settings s
new_options(s, kwargs) ==
    [key \in DOMAIN kwargs \cup DOMAIN applied_settings(s) |->
        IF key \in DOMAIN applied_settings(s) THEN applied_settings(s)[key]
        ELSE kwargs[key]]

\* options.<name>
option(options, name) ==
    IF name \in DOMAIN options THEN options[name] ELSE MetadataOptions[name]

\* __init_subclass__: cls._meta for the attributes of the inner Meta class
\* (none where the class has no Meta)
init_subclass(s, meta_attrs) == new_options(s, meta_attrs)

\* __init__: self._meta, which hides cls._meta on the instance
init_instance(s) == new_options(s, applied_settings(s))

\* the Meta classes of SpecOptions: each option is declared or not
MetaClasses ==
    {configured(configured(configured(configured(<<>>,
                "use_sites", sites), "use_cache", use_cache),
                "cache_prefix", prefix), "async_enabled", enabled) :
        sites \in {<<>>, <<TRUE>>, <<FALSE>>}, use_cache \in {<<>>, <<FALSE>>},
        prefix \in {<<>>, <<"pages">>}, enabled \in {<<>>, <<FALSE>>}}

OptionSettings ==
    {configured(configured(global_settings, "SEO_ASYNC_ENABLED", enabled),
                "SEO_CACHE_TIMEOUT", timeout) :
        enabled \in {<<>>, <<TRUE>>, <<FALSE>>}, timeout \in {<<>>, <<60>>}}

\* class M(MetadataBase) with the inner Meta meta_attrs is defined and M()
\* is made; the result is the instance's _meta, option by option
Instantiate(meta_attrs) ==
    /\ op' = "MetadataBase"
    /\ arg' = meta_attrs
    /\ result' = [name \in DOMAIN MetadataOptions |->
                     option(init_instance(settings), name)]
    /\ UNCHANGED <<redirects, elsewhere>>

NextOptions ==
    \/ \E s \in OptionSettings : OverrideSettings(s)
    \/ \E meta_attrs \in MetaClasses : Instantiate(meta_attrs)

SpecOptions == Init /\ [][NextOptions]_vars

\* C24: every option but async_enabled that the Meta class of a
\* MetadataBase subclass declares has, on instance._meta, the value
\* declared, and instance._meta.async_enabled is the SEO_ASYNC_ENABLED
\* setting (True where it is not set).
C24_MetaOptionsSeenOnInstance ==
    op = "MetadataBase" =>
        /\ \A name \in DOMAIN arg \ {"async_enabled"} : result[name] = arg[name]
        /\ result.async_enabled = getattr(settings, "SEO_ASYNC_ENABLED", TRUE)

-----------------------------------------------------------------------------
(* async_utils.py: AsyncSEOAnalyzer.  The tasks of analyze_urls run on one *)
(* event loop: a task runs alone from one await to the next.  A task holds *)
(* the semaphore from `async with self.semaphore` to the end of that       *)
(* block, which every return and every exception leave through __aexit__.  *)

MaxTasks == 3

AnalyzedUrls == {<<"h", "t", "t", "p", "s", ":", "/", "/", "a", ".", "i", "o">>, <<"h", "t", "t", "p", "s", ":", "/", "/", "b", ".", "i", "o">>}

\* what session.get and response.text() can end with: a response, an
\* exception that analyze_url catches, or one that it does not catch
Outcomes == {"ok", "ClientError", "TimeoutError", "UnicodeDecodeError"}

\* f'async_seo_analysis_{url}'
analysis_key(url) == <<"a", "s", "y", "n", "c", "_", "s", "e", "o", "_", "a", "n", "a", "l", "y", "s", "i", "s", "_">> \o url

\* the dict analyze_url builds from a response (the timestamp left out); the
\* metrics are the {} and the score the 0.0 of the analyzer's own methods
analysis(url) ==
    [url |-> url, content_metrics |-> <<>>, technical_metrics |-> <<>>,
     page_speed |-> <<>>, score |-> 0, suggestions |-> <<>>]

\* the dict of the except clause (the timestamp left out)
analysis_error(url, e) == [url |-> url, error |-> e]

\* what analyze_url ends with after the outcome of the fetch
analyze_result(url, outcome) ==
    CASE outcome = "ok" -> Returns(analysis(url), FALSE)
      [] outcome \in {"ClientError", "TimeoutError"} ->
             Returns(analysis_error(url, outcome), FALSE)
      [] OTHER -> Raises(outcome)

\* an analyze_url that stores whatever dict it returns
cache_any(entries, url, outcome) ==
    IF analyze_result(url, outcome).kind = "returned"
    THEN cache_set(entries, analysis_key(url), analyze_result(url, outcome).value)
    ELSE entries

\* cache.set(cache_key, result, ...) stands in the try block, after the
\* response is read, and nowhere else
cache_after(entries, url, outcome) ==
    IF outcome = "ok"
    THEN cache_set(entries, analysis_key(url), analysis(url))
    ELSE entries

\* a section between acquire() and release() calls with no try/finally: an
\* exception leaves it with the semaphore held
release_on_return(value, outcome) ==
    IF analyze_result(<<>>, outcome).kind = "returned" THEN value + 1 ELSE value

\* Semaphore.__aexit__: release(), however the block is left
aexit(value, outcome) == value + 1

\* tasks = [self.analyze_url(url) for url in urls]
new_tasks(urls) ==
    [i \in 1..Len(urls) |-> [url |-> urls[i], pc |-> "created", result |-> NoCall]]

\* analyzer.analyze_urls(urls), up to the await of gather
AnalyzeUrls(urls) ==
    /\ Len(tasks) + Len(urls) <= MaxTasks
    /\ tasks' = tasks \o new_tasks(urls)
    /\ op' = "analyze_urls"
    /\ arg' = urls
    /\ result' = NoCall
    /\ UNCHANGED <<redirects, settings, I18nConfig, active_language, cache, semaphore>>

\* task t runs from its start to its first await: the cache is read, and on
\* a miss the semaphore is taken if it is free
StartTask(t) ==
    /\ t \in 1..Len(tasks)
    /\ tasks[t].pc = "created"
    /\ IF analysis_key(tasks[t].url) \in DOMAIN cache
       THEN /\ tasks' = [tasks EXCEPT ![t].pc = "done",
                                      ![t].result = Returns(cache[analysis_key(tasks[t].url)], TRUE)]
            /\ UNCHANGED semaphore
       ELSE IF semaphore > 0
       THEN /\ tasks' = [tasks EXCEPT ![t].pc = "fetching"]
            /\ semaphore' = semaphore - 1
       ELSE /\ tasks' = [tasks EXCEPT ![t].pc = "waiting"]
            /\ UNCHANGED semaphore
    /\ UNCHANGED <<redirects, op, arg, result, settings, I18nConfig, active_language, cache>>

\* task t, which waits in acquire(), gets the semaphore
Acquire(t) ==
    /\ t \in 1..Len(tasks)
    /\ tasks[t].pc = "waiting"
    /\ semaphore > 0
    /\ tasks' = [tasks EXCEPT ![t].pc = "fetching"]
    /\ semaphore' = semaphore - 1
    /\ UNCHANGED <<redirects, op, arg, result, settings, I18nConfig, active_language, cache>>

\* the fetch of task t ends and the task runs to its end
Respond(t, outcome) ==
    /\ t \in 1..Len(tasks)
    /\ tasks[t].pc = "fetching"
    /\ tasks' = [tasks EXCEPT ![t].pc = "done",
                              ![t].result = analyze_result(tasks[t].url, outcome)]
    /\ cache' = cache_after(cache, tasks[t].url, outcome)
    /\ semaphore' = aexit(semaphore, outcome)
    /\ UNCHANGED <<redirects, op, arg, result, settings, I18nConfig, active_language>>

\* the next step of task t
RunTask(t) == StartTask(t) \/ Acquire(t) \/ \E outcome \in Outcomes : Respond(t, outcome)

\* async_utils.py is imported and an analyzer made, with a limit of 1 or 2
InitAnalyzer ==
    /\ table = <<>>
    /\ clock = 1
    /\ op = "init"
    /\ arg = <<>>
    /\ result = NoCall
    /\ before = NoCall
    /\ calls = [c \in Callers |-> Idle]
    /\ settings \in {configured(global_settings, "SEO_MAX_CONCURRENT_REQUESTS", <<n>>) :
                        n \in {1, 2}}
    /\ I18nConfig = import_i18n(settings)
    /\ active_language = en_us
    /\ cache = <<>>
    /\ tasks = <<>>
    /\ semaphore = new_semaphore(settings)

NextAnalyzer ==
    \/ \E urls \in UNION {[1..n -> AnalyzedUrls] : n \in 1..2} : AnalyzeUrls(urls)
    \/ \E t \in 1..MaxTasks : StartTask(t)
    \/ \E t \in 1..MaxTasks : Acquire(t)
    \/ \E t \in 1..MaxTasks, outcome \in Outcomes : Respond(t, outcome)

SpecAnalyzer == InitAnalyzer /\ [][NextAnalyzer]_vars

\* the event loop runs every task that can run, and a fetch ends (with
\* TimeoutError after REQUEST_TIMEOUT at the latest)
FairAnalyzer == SpecAnalyzer /\ \A t \in 1..MaxTasks : WF_vars(RunTask(t))

\* the tasks inside the block guarded by the semaphore
Fetching == {t \in 1..Len(tasks) : tasks[t].pc = "fetching"}

\* at most MAX_CONCURRENT_REQUESTS tasks are inside the block, and the
\* semaphore counts the places left
WithinLimit ==
    /\ Cardinality(Fetching) <= MAX_CONCURRENT_REQUESTS(settings)
    /\ semaphore = MAX_CONCURRENT_REQUESTS(settings) - Cardinality(Fetching)

\* task t has come to its end
Ended(t) == t <= Len(tasks) /\ tasks[t].pc = "done"

\* C25: at no time are more than MAX_CONCURRENT_REQUESTS analyze_url tasks
\* of an analyzer inside the block guarded by its semaphore, every task
\* that leaves the block gives the semaphore back, whether it returns a
\* result, returns an error or raises, and every task that analyze_urls
\* made comes to its end.
C25_FetchesWithinLimit ==
    /\ []WithinLimit
    /\ \A t \in 1..MaxTasks : (Len(tasks) >= t) ~> Ended(t)

\* with a limit of 1, one task is inside the block, one waits for the
\* semaphore and one has left the block with an exception
C25_Witness ==
    /\ MAX_CONCURRENT_REQUESTS(settings) = 1
    /\ Len(tasks) = 3
    /\ \E t \in 1..3 : tasks[t].pc = "fetching"
    /\ \E t \in 1..3 : tasks[t].pc = "waiting"
    /\ \E t \in 1..3 : tasks[t].pc = "done" /\ tasks[t].result.kind = "raised"

\* the urls with an entry in the cache
CachedUrls == {url \in AnalyzedUrls : analysis_key(url) \in DOMAIN cache}

\* C26: every entry of the cache under 'async_seo_analysis_<url>' is the
\* result of a successful analysis of that url: it has a score and no
\* 'error' key, so that a call for a url whose fetch failed finds nothing
\* in the cache.
C26_NoErrorCached ==
    \A url \in CachedUrls :
        /\ "score" \in DOMAIN cache[analysis_key(url)]
        /\ "error" \notin DOMAIN cache[analysis_key(url)]
        /\ cache[analysis_key(url)].url = url

\* the fetch of a url has failed for one task and another task, made for
\* the same url, is fetching it again, while the other url is in the cache
C26_Witness ==
    /\ CachedUrls # {}
    /\ \E t, u \in 1..Len(tasks) :
           /\ tasks[t].pc = "done"
           /\ tasks[t].result.kind = "returned"
           /\ "error" \in DOMAIN tasks[t].result.value
           /\ tasks[u].pc = "fetching"
           /\ tasks[u].url = tasks[t].url
           /\ tasks[u].url \notin CachedUrls

-----------------------------------------------------------------------------
(* analytics.py: SEOAnalyzer._calculate_score and _generate_suggestions.   *)
(* Times are in milliseconds, so that 2, 2.5, 3 and 3.8 seconds are        *)
(* integers; broken_links is a list, of which only the length is read.     *)

\* the conditions the two methods test, each on the metrics m
penalty_conditions(m) ==
    [word_count |-> m.content.word_count < 300,
     h1 |-> getattr(m.content.heading_structure, "h1", 0) = 0,
     alt |-> m.content.images_with_alt < m.content.image_count,
     broken_links |-> Len(m.content.broken_links) > 0,
     ssl |-> ~m.technical.has_ssl,
     robots_txt |-> ~m.technical.has_robots_txt,
     sitemap |-> ~m.technical.has_sitemap,
     mobile |-> ~m.technical.is_mobile_friendly,
     schema |-> ~m.technical.has_schema_markup,
     response_time |-> m.technical.response_time > 2000,
     load_time |-> m.page_speed.load_time > 3000,
     lcp |-> m.page_speed.largest_contentful_paint > 2500,
     tti |-> m.page_speed.time_to_interactive > 3800]

\* what _calculate_score subtracts for each of its if statements
penalties(m) ==
    [word_count |-> IF m.content.word_count < 300 THEN 10 ELSE 0,
     h1 |-> IF getattr(m.content.heading_structure, "h1", 0) = 0 THEN 10 ELSE 0,
     alt |-> IF m.content.images_with_alt < m.content.image_count THEN 5 ELSE 0,
     broken_links |-> IF Len(m.content.broken_links) > 0
                      THEN Len(m.content.broken_links) * 2 ELSE 0,
     ssl |-> IF ~m.technical.has_ssl THEN 20 ELSE 0,
     robots_txt |-> IF ~m.technical.has_robots_txt THEN 5 ELSE 0,
     sitemap |-> IF ~m.technical.has_sitemap THEN 5 ELSE 0,
     mobile |-> IF ~m.technical.is_mobile_friendly THEN 15 ELSE 0,
     schema |-> IF ~m.technical.has_schema_markup THEN 10 ELSE 0,
     response_time |-> IF m.technical.response_time > 2000 THEN 10 ELSE 0,
     load_time |-> IF m.page_speed.load_time > 3000 THEN 10 ELSE 0,
     lcp |-> IF m.page_speed.largest_contentful_paint > 2500 THEN 5 ELSE 0,
     tti |-> IF m.page_speed.time_to_interactive > 3800 THEN 5 ELSE 0]

\* score after the last if statement
penalized(p) ==
    100 - p.word_count - p.h1 - p.alt - p.broken_links - p.ssl - p.robots_txt
        - p.sitemap - p.mobile - p.schema - p.response_time - p.load_time
        - p.lcp - p.tti

\* a _calculate_score that returns the score as it is after the penalties
unclamped(score) == score

\* max(0, min(100, score))
clamped(score) ==
    IF score > 100 THEN 100 ELSE IF score < 0 THEN 0 ELSE score

calculate_score(m) == clamped(penalized(penalties(m)))

\* a _generate_suggestions that asks for alt texts only where no image has one
no_image_has_alt(content) == content.image_count > 0 /\ content.images_with_alt = 0

\* if content_metrics.images_with_alt < content_metrics.image_count
some_image_lacks_alt(content) == content.images_with_alt < content.image_count

\* the messages of _generate_suggestions, by the condition of their if statement
messages ==
    [word_count |-> "Add more content - articles should be at least 300 words",
     h1 |-> "Add an H1 heading to your page",
     alt |-> "Add alt text to all images",
     broken_links |-> "Fix broken links found on your page",
     ssl |-> "Enable HTTPS for your website",
     robots_txt |-> "Add a robots.txt file",
     sitemap |-> "Add an XML sitemap",
     mobile |-> "Optimize your page for mobile devices",
     schema |-> "Add schema markup to your page",
     response_time |-> "Improve server response time",
     load_time |-> "Optimize page load time",
     lcp |-> "Optimize Largest Contentful Paint",
     tti |-> "Improve Time to Interactive"]

\* if condition: suggestions.append(message)
appended(condition, message) == IF condition THEN <<message>> ELSE <<>>

generate_suggestions(m) ==
    appended(m.content.word_count < 300, messages.word_count)
    \o appended(getattr(m.content.heading_structure, "h1", 0) = 0, messages.h1)
    \o appended(some_image_lacks_alt(m.content), messages.alt)
    \o appended(Len(m.content.broken_links) > 0, messages.broken_links)
    \o appended(~m.technical.has_ssl, messages.ssl)
    \o appended(~m.technical.has_robots_txt, messages.robots_txt)
    \o appended(~m.technical.has_sitemap, messages.sitemap)
    \o appended(~m.technical.is_mobile_friendly, messages.mobile)
    \o appended(~m.technical.has_schema_markup, messages.schema)
    \o appended(m.technical.response_time > 2000, messages.response_time)
    \o appended(m.page_speed.load_time > 3000, messages.load_time)
    \o appended(m.page_speed.largest_contentful_paint > 2500, messages.lcp)
    \o appended(m.page_speed.time_to_interactive > 3800, messages.tti)

\* the metrics of SpecScore: every condition on either side of its threshold
ContentMetrics ==
    [word_count : {299, 300},
     heading_structure : {<<>>, [h \in {"h1"} |-> 0], [h \in {"h1"} |-> 1]},
     image_count : {2}, images_with_alt : {0, 1, 2},
     broken_links : {[i \in 1..n |-> "/gone"] : n \in {0, 1, 50}}]

TechnicalMetrics ==
    [has_ssl : BOOLEAN, has_robots_txt : BOOLEAN, has_sitemap : BOOLEAN,
     is_mobile_friendly : BOOLEAN, has_schema_markup : BOOLEAN,
     response_time : {2000, 2001}]

PageSpeed ==
    [load_time : {3000, 3001}, largest_contentful_paint : {2500, 2501},
     time_to_interactive : {3800, 3801}]

\* an analyzer is given the metrics of a page
InitScore ==
    /\ table = <<>>
    /\ clock = 1
    /\ op = "init"
    /\ arg \in [content : ContentMetrics, technical : TechnicalMetrics,
                page_speed : PageSpeed]
    /\ result = NoCall
    /\ before = NoCall
    /\ calls = [c \in Callers |-> Idle]
    /\ settings = global_settings
    /\ I18nConfig = import_i18n(settings)
    /\ active_language = en_us
    /\ cache = <<>>
    /\ tasks = <<>>
    /\ semaphore = new_semaphore(settings)

\* self._calculate_score(content_metrics, technical_metrics, page_speed)
CalculateScore ==
    /\ op' = "_calculate_score"
    /\ result' = calculate_score(arg)
    /\ UNCHANGED <<redirects, arg, elsewhere>>

\* self._generate_suggestions(content_metrics, technical_metrics, page_speed)
GenerateSuggestions ==
    /\ op' = "_generate_suggestions"
    /\ result' = generate_suggestions(arg)
    /\ UNCHANGED <<redirects, arg, elsewhere>>

NextScore == CalculateScore \/ GenerateSuggestions

SpecScore == InitScore /\ [][NextScore]_vars

\* the names of the conditions
Conditions == DOMAIN messages

\* C27: _calculate_score returns a value from 0 to 100, whatever the
\* metrics and however many broken links there are, and 100 only where
\* none of the conditions that cost points holds.
C27_ScoreWithinBounds ==
    op = "_calculate_score" =>
        /\ result >= 0
        /\ result <= 100
        /\ result = 100 => \A c \in Conditions : ~penalty_conditions(arg)[c]

\* a page with 50 broken links and every other condition holding: score 0
C27_Witness ==
    /\ op = "_calculate_score"
    /\ result = 0
    /\ Len(arg.content.broken_links) = 50
    /\ \A c \in Conditions : penalty_conditions(arg)[c]

\* the messages in the list of suggestions
Suggested == {result[i] : i \in 1..Len(result)}

\* C28: _generate_suggestions has the message of a condition in its list
\* exactly where _calculate_score subtracts points for that condition, so
\* the list is empty exactly where the score is 100.
C28_SuggestionsMatchPenalties ==
    op = "_generate_suggestions" =>
        /\ \A c \in Conditions : messages[c] \in Suggested <=> penalties(arg)[c] > 0
        /\ result = <<>> <=> calculate_score(arg) = 100

\* the one suggestion of a page that lacks alt texts and nothing else, and
\* scores 95
C28_Witness ==
    /\ op = "_generate_suggestions"
    /\ result = <<messages.alt>>
    /\ arg.content.images_with_alt = 1
    /\ calculate_score(arg) = 95

-----------------------------------------------------------------------------
(* base.py: FormattedMetadata._resolve_value.  A value is a string, the    *)
(* None of Python is PyNone; an instance is the function from names to     *)
(* what its _resolve_value returns; elements is the dict of                *)
(* metadata._meta.elements, by name, each element with its populate_from.  *)

\* frames a call may nest before the interpreter raises RecursionError
\* (sys.getrecursionlimit(), 1000 in CPython, cut down)
MaxDepth == 4

PyNone == "None"

\* if value:
truthy(value) == value \notin {"", PyNone}

\* populate_from: a callable that returns value, Literal(value), NotSet, or
\* the name of another element
Callable(value) == [kind |-> "callable", value |-> value]
LiteralOf(value) == [kind |-> "Literal", value |-> value]
NotSet == [kind |-> "NotSet", value |-> PyNone]
NameOf(name) == [kind |-> "name", value |-> name]

\* the for loop over the instances from the i-th on: the first truthy value,
\* PyNone where there is none
RECURSIVE first_truthy(_, _, _)
first_truthy(instances, name, i) ==
    IF i > Len(instances) THEN PyNone
    ELSE IF truthy(instances[i][name]) THEN instances[i][name]
    ELSE first_truthy(instances, name, i + 1)

\* _resolve_value(name) in a frame at the given depth; found is what the
\* loop over the instances gave
RECURSIVE resolve_value(_, _, _, _)
resolve_from(instances, elements, name, depth, found) ==
    IF truthy(found) THEN Returns(found, FALSE)
    ELSE IF name \notin DOMAIN elements THEN Returns(PyNone, FALSE)
    ELSE CASE elements[name].kind = "callable" -> Returns(elements[name].value, FALSE)
           [] elements[name].kind = "Literal" -> Returns(elements[name].value, FALSE)
           [] elements[name].kind = "name" ->
                  resolve_value(instances, elements, elements[name].value, depth + 1)
           [] OTHER -> Returns(PyNone, FALSE)

resolve_value(instances, elements, name, depth) ==
    IF depth > MaxDepth THEN Raises("RecursionError")
    ELSE resolve_from(instances, elements, name, depth,
                      first_truthy(instances, name, 1))

\* the element names of SpecResolve
ElementNames == {"title", "og_title"}

\* the other name
other(name) == CHOOSE n \in ElementNames : n # name

\* what populate_from of the element of a name may be
PopulateFrom(name) ==
    {Callable("from callable"), Callable(""), LiteralOf("literal"), NotSet,
     NameOf(other(name)), NameOf(name), NameOf("description")}

\* the elements: each name has an element or has none
Elements ==
    {configured(configured(<<>>, "title", title), "og_title", og_title) :
        title \in {<<>>} \cup {<<p>> : p \in PopulateFrom("title")},
        og_title \in {<<>>} \cup {<<p>> : p \in PopulateFrom("og_title")}}

\* the instances: none, or one that has a value for some of the names
Instances ==
    {<<>>} \cup {<<[n \in ElementNames \cup {"description"} |->
                       IF n \in has THEN "stored " \o n ELSE ""]>> :
                    has \in SUBSET ElementNames}

\* a FormattedMetadata is made for a metadata class and its instances
InitResolve ==
    /\ table = <<>>
    /\ clock = 1
    /\ op = "init"
    /\ arg \in [instances : Instances, elements : Elements, name : {PyNone}]
    /\ result = NoCall
    /\ before = NoCall
    /\ calls = [c \in Callers |-> Idle]
    /\ settings = global_settings
    /\ I18nConfig = import_i18n(settings)
    /\ active_language = en_us
    /\ cache = <<>>
    /\ tasks = <<>>
    /\ semaphore = new_semaphore(settings)

\* formatted._resolve_value(name)
ResolveValue(name) ==
    /\ op' = "_resolve_value"
    /\ arg' = [arg EXCEPT !.name = name]
    /\ result' = resolve_value(arg.instances, arg.elements, name, 1)
    /\ UNCHANGED <<redirects, elsewhere>>

NextResolve == \E name \in ElementNames : ResolveValue(name)

SpecResolve == InitResolve /\ [][NextResolve]_vars

\* the value the precedence gives for a name: the first truthy value of an
\* instance; else what populate_from gives, a reference being followed
\* through the names not yet seen; else None
RECURSIVE precedence(_, _, _, _)
precedence(instances, elements, name, seen) ==
    IF truthy(first_truthy(instances, name, 1)) THEN first_truthy(instances, name, 1)
    ELSE IF name \notin DOMAIN elements \/ name \in seen THEN PyNone
    ELSE IF elements[name].kind \in {"callable", "Literal"} THEN elements[name].value
    ELSE IF elements[name].kind = "name"
    THEN precedence(instances, elements, elements[name].value, seen \cup {name})
    ELSE PyNone

\* C29: _resolve_value(name) returns, for every list of instances and every
\* elements dict, also one in which the populate_from references form a
\* cycle and no instance has a value: it returns the first truthy value of
\* an instance, else what populate_from gives (the result of the callable,
\* the value of the Literal, the value resolved for the name referred to),
\* else None.
C29_ResolutionTerminates ==
    op = "_resolve_value" =>
        /\ result.kind = "returned"
        /\ result.value = precedence(arg.instances, arg.elements, arg.name, {})

\* ---------------------------------------------------------------------
\* fields.py: KeywordsField.clean
\* ---------------------------------------------------------------------

\* the longest value given to clean
MaxValueLen == 4

\* str.strip(): s without its leading and trailing whitespace
strip(s) ==
    IF \A i \in 1..Len(s) : s[i] \in Whitespace THEN <<>>
    ELSE SubSeq(s,
                CHOOSE i \in 1..Len(s) :
                    s[i] \notin Whitespace /\ \A j \in 1..(i - 1) : s[j] \in Whitespace,
                CHOOSE i \in 1..Len(s) :
                    s[i] \notin Whitespace /\ \A j \in (i + 1)..Len(s) : s[j] \in Whitespace)

\* str.split(sep), sep one character: at least one piece
RECURSIVE split(_, _)
split(s, sep) ==
    IF FirstOf(s, {sep}) > Len(s) THEN <<s>>
    ELSE <<SubSeq(s, 1, FirstOf(s, {sep}) - 1)>>
             \o split(SubSeq(s, FirstOf(s, {sep}) + 1, Len(s)), sep)

\* sep.join(items)
RECURSIVE join(_, _)
join(sep, items) ==
    IF Len(items) = 0 THEN <<>>
    ELSE IF Len(items) = 1 THEN items[1]
    ELSE items[1] \o <<sep>> \o join(sep, Tail(items))

\* s[:n], n not negative
up_to(s, n) == SubSeq(s, 1, IF n < Len(s) THEN n ELSE Len(s))

\* the values given to clean: None, a str, a list of str
NoneValue == [type |-> "NoneType", v |-> <<>>]

StrValue(s) == [type |-> "str", v |-> s]

ListValue(l) == [type |-> "list", v |-> l]

\* keywords: the items of a list, the pieces between the commas of another
\* value, each stripped and lower-cased
keywords(value) ==
    IF value.type = "list"
    THEN [i \in 1..Len(value.v) |-> lower(strip(value.v[i]))]
    ELSE [i \in 1..Len(split(value.v, ",")) |-> lower(strip(split(value.v, ",")[i]))]

\* the loop over keywords, from the i-th on: a keyword shorter than
\* min_keyword_length is skipped, a new one is appended
RECURSIVE valid_keywords(_, _, _, _)
valid_keywords(field, kws, i, valid) ==
    IF i > Len(kws) THEN valid
    ELSE IF Len(kws[i]) < field.min_keyword_length
    THEN valid_keywords(field, kws, i + 1, valid)
    ELSE IF \E j \in 1..Len(valid) : valid[j] = kws[i]
    THEN valid_keywords(field, kws, i + 1, valid)
    ELSE valid_keywords(field, kws, i + 1, Append(valid, kws[i]))

\* KeywordsField.clean(value)
KeywordsField_clean(field, value) ==
    IF value.type = "NoneType" THEN <<>>
    ELSE up_to(join(",", up_to(valid_keywords(field, keywords(value), 1, <<>>),
                               field.max_keywords)),
               field.max_length)

\* KeywordsField(max_length, max_keywords, min_keyword_length): the defaults
\* 255, 10 and 3, and smaller ones
KeywordsFields ==
    [max_length : {3, 255}, max_keywords : {1, 10}, min_keyword_length : {1, 2, 3}]

KeywordChars == {"a", "b", "A", ",", " "}

\* the strings of KeywordChars of length n
RECURSIVE strings_of(_)
strings_of(n) ==
    IF n = 0 THEN {<<>>}
    ELSE {Append(s, c) : s \in strings_of(n - 1), c \in KeywordChars}

KeywordStrings == UNION {strings_of(n) : n \in 0..MaxValueLen}

KeywordItems == {<<"a", "b">>, <<"a", ",", "b">>, <<" ", "A", "b", " ">>, <<"a">>, <<>>}

KeywordLists == {<<>>} \cup {<<k>> : k \in KeywordItems}
                    \cup {<<k, l>> : k \in KeywordItems, l \in KeywordItems}

\* a KeywordsField is made, and a value to clean is at hand: None, a str
\* or a list
InitKeywords ==
    /\ table = <<>>
    /\ clock = 1
    /\ op = "init"
    /\ \/ arg \in [field : KeywordsFields, value : {NoneValue}]
       \/ arg \in [field : KeywordsFields, value : {StrValue(s) : s \in KeywordStrings}]
       \/ arg \in [field : KeywordsFields, value : {ListValue(l) : l \in KeywordLists}]
    /\ result = NoCall
    /\ before = NoCall
    /\ calls = [c \in Callers |-> Idle]
    /\ settings = global_settings
    /\ I18nConfig = import_i18n(settings)
    /\ active_language = en_us
    /\ cache = <<>>
    /\ tasks = <<>>
    /\ semaphore = new_semaphore(settings)

\* field.clean(value)
Clean ==
    /\ op' = "KeywordsField.clean"
    /\ result' = Returns(KeywordsField_clean(arg.field, arg.value), FALSE)
    /\ UNCHANGED <<arg, redirects, elsewhere>>

NextKeywords == Clean

SpecKeywords == InitKeywords /\ [][NextKeywords]_vars

\* the keywords a comma-separated list holds: none for the empty string
listed(s) == IF s = <<>> THEN <<>> ELSE split(s, ",")

\* s is a list of at most max_keywords keywords, lower-cased, pairwise
\* distinct, each of min_keyword_length characters or more, and is not
\* longer than max_length
cleaned(field, s) ==
    /\ Len(s) <= field.max_length
    /\ Len(listed(s)) <= field.max_keywords
    /\ \A i \in 1..Len(listed(s)) :
           /\ lower(listed(s)[i]) = listed(s)[i]
           /\ Len(listed(s)[i]) >= field.min_keyword_length
    /\ \A i, j \in 1..Len(listed(s)) : i # j => listed(s)[i] # listed(s)[j]

\* C30: for every value, the string clean returns is a comma-separated
\* list of at most max_keywords keywords that are lower-cased, pairwise
\* distinct and each min_keyword_length characters or longer, its length
\* is max_length or less, and cleaning it again returns it unchanged.
C30_CleanedKeywords ==
    op = "KeywordsField.clean" =>
        /\ cleaned(arg.field, result.value)
        /\ KeywordsField_clean(arg.field, StrValue(result.value)) = result.value

====
